---------------------------- MODULE Spec2Model ----------------------------
(***************************************************************************)
(* A model of the Automatic Diagram Generator (ADG).                       *)
(*                                                                         *)
(*   src/adg.py       the main script: configuration, enumeration of the   *)
(*                    adjacency matrices (MBPT, BMBPT, BMBPT norm kernel),  *)
(*                    Diagrams.list, graphs, connectivity filter, BMBPT    *)
(*                    isomorphism reduction and classification             *)
(*   src/adg/diag.py  the library routines (canonicalizer with tags,       *)
(*                    vertex labelling, adjacency-matrix dump)             *)
(*   src/methods.py   the intermediate library routines                    *)
(*                                                                         *)
(* Python lists are TLA+ sequences (1-based: list index k is sequence      *)
(* index k+1).  An adjacency matrix is a function                          *)
(* [0..n-1 -> [0..n-1 -> Nat]], so vertices keep the source's 0-based      *)
(* numbering and vertex 0 is the distinguished one.                        *)
(***************************************************************************)
EXTENDS Integers, Sequences, FiniteSets, TLC

(***************************************************************************)
(* Bounds of the model.                                                    *)
(***************************************************************************)
\* largest perturbative order answered at the prompt for theory MBPT
MaxOrderMBPT == 4
\* largest order for BMBPT (operator and norm kernels, two-body only)
MaxOrderBMBPT == 3
\* largest order for BMBPT with three-body forces
MaxOrder3N == 2

(***************************************************************************)
(* Matrices.                                                               *)
(***************************************************************************)
Nodes(n) == 0 .. (n - 1)

\* the all-zero p_order x p_order matrix built at the top of the generators
empty_mat(p_order) == [i \in Nodes(p_order) |-> [j \in Nodes(p_order) |-> 0]]

\* len(matrix[0]) for a square matrix
Dim(matrix) == Cardinality(DOMAIN matrix)

RECURSIVE SumOver(_, _)
\* sum(f[x] for x in S)
SumOver(f, S) ==
    IF S = {} THEN 0
    ELSE LET x == CHOOSE y \in S : TRUE
         IN  f[x] + SumOver(f, S \ {x})

\* sum over k of matrix[k][v] + matrix[v][k]: the total degree of vertex v
\* (a diagonal entry counts twice, as in the source's loops)
VertexDegree(matrix, v) ==
    SumOver([k \in DOMAIN matrix |-> matrix[k][v] + matrix[v][k]], DOMAIN matrix)

\* number of lines entering vertex v / leaving vertex v
InDegree(matrix, v) == SumOver([k \in DOMAIN matrix |-> matrix[k][v]], DOMAIN matrix)
OutDegree(matrix, v) == SumOver([k \in DOMAIN matrix |-> matrix[v][k]], DOMAIN matrix)

\* number of lines of the multigraph
NumberOfEdges(matrix) ==
    SumOver([k \in DOMAIN matrix |-> OutDegree(matrix, k)], DOMAIN matrix)

\* the least element of a non-empty set of integers
Least(S) == CHOOSE x \in S : \A y \in S : x <= y

\* a > b as Python compares two nested lists of the same shape: at the first
\* row where they differ, and in it at the first entry where they differ, a has
\* the greater entry
MatGreater(a, b) ==
    LET rows == {i \in DOMAIN a : a[i] # b[i]}
        i == Least(rows)
        j == Least({l \in DOMAIN a[i] : a[i][l] # b[i][l]})
    IN  rows # {} /\ a[i][j] > b[i][j]

(***************************************************************************)
(* List helpers.                                                           *)
(***************************************************************************)
Range(seq) == {seq[k] : k \in DOMAIN seq}

RECURSIVE SelectFrom(_, _, _, _)
\* [seq[k] for k in lo..hi if keep[k]], by halves
SelectFrom(seq, keep, lo, hi) ==
    IF lo > hi THEN << >>
    ELSE IF lo = hi THEN (IF keep[lo] THEN <<seq[lo]>> ELSE << >>)
    ELSE LET mid == (lo + hi) \div 2
         IN  SelectFrom(seq, keep, lo, mid) \o SelectFrom(seq, keep, mid + 1, hi)

\* the elements of seq whose position satisfies keep, in order
Filter(seq, keep) == SelectFrom(seq, keep, 1, Len(seq))

RECURSIVE FlattenFrom(_, _, _)
\* seqs[lo] + ... + seqs[hi], by halves
FlattenFrom(seqs, lo, hi) ==
    IF lo > hi THEN << >>
    ELSE IF lo = hi THEN seqs[lo]
    ELSE LET mid == (lo + hi) \div 2
         IN  FlattenFrom(seqs, lo, mid) \o FlattenFrom(seqs, mid + 1, hi)

\* the concatenation of a list of lists
Flatten(seqs) == FlattenFrom(seqs, 1, Len(seqs))

\* a variant of the loop without its test "if i not in uniq"
Uniq_keep_all(seq) == seq

\* for i in seq: if i not in uniq: uniq.append(i)
\* (an element is kept at its first occurrence)
Uniq(seq) ==
    Filter(seq, [k \in DOMAIN seq |-> \A j \in 1 .. (k - 1) : seq[j] # seq[k]])

\* list.sort(reverse=True) on a list of matrices: position k goes after the
\* greater elements and after the equal elements met before it (the sort is stable)
SortReverse(seq) ==
    LET rank(k) == Cardinality({j \in DOMAIN seq : MatGreater(seq[j], seq[k])})
                   + Cardinality({j \in 1 .. (k - 1) : seq[j] = seq[k]}) + 1
        ranks == [k \in DOMAIN seq |-> rank(k)] \o << >>
    IN  [r \in DOMAIN seq |-> seq[CHOOSE k \in DOMAIN seq : ranks[k] = r]]

(***************************************************************************)
(* The filters of adg.py.                                                  *)
(***************************************************************************)
\* a variant of the degree test: a bound in place of the list of degrees
DegreeAtMost(degree, three) == degree <= (IF three THEN 6 ELSE 4)

\* the degree test repeated through adg.py:
\*   not ((degree != 2) and (degree != 4) and ((three_N == False) or (degree != 6)))
DegreeOk(degree, three) == degree = 2 \/ degree = 4 \/ (three /\ degree = 6)

\* a variant of g that keeps every matrix
g_keep_all(mats) == mats

\* a variant of g that looks at the first row only
g_first_row(mats) ==
    Filter(mats, [k \in DOMAIN mats |->
        \A i \in DOMAIN mats[k] \cap {0} : mats[k][i][i] # 1])

\* g: keeps the matrices with no 1 on the diagonal
g(mats) ==
    Filter(mats, [k \in DOMAIN mats |-> \A i \in DOMAIN mats[k] : mats[k][i][i] # 1])

\* a variant of no_loop that leaves the diagonal out: range(i) for range(i+1)
no_loop_off_diagonal(mats) ==
    Filter(mats, [k \in DOMAIN mats |->
        \A i \in DOMAIN mats[k] : \A j \in 0 .. (i - 1) :
            ~(mats[k][i][j] # 0 /\ mats[k][j][i] # 0)])

\* no_loop: keeps the matrices with no i, j <= i having [i][j] and [j][i] non-zero
no_loop(mats) ==
    Filter(mats, [k \in DOMAIN mats |->
        \A i \in DOMAIN mats[k] : \A j \in 0 .. i :
            ~(mats[k][i][j] # 0 /\ mats[k][j][i] # 0)])

\* check_degree: keeps the matrices all of whose vertices pass the degree test
check_degree(mats, three) ==
    Filter(mats, [k \in DOMAIN mats |->
        \A i \in DOMAIN mats[k] : DegreeOk(VertexDegree(mats[k], i), three)])

(***************************************************************************)
(* MBPT enumeration (adg.py, seed and diagram_generation).                 *)
(***************************************************************************)
\* the largest number of vertices of a graph of the model
MaxNodes ==
    CHOOSE m \in {MaxOrderMBPT, MaxOrderBMBPT, MaxOrder3N} :
        \A o \in {MaxOrderMBPT, MaxOrderBMBPT, MaxOrder3N} : o <= m

\* the one-to-one maps of range(n) onto itself, for every n of the model
AllBijections ==
    [n \in 0 .. MaxNodes |->
        {k \in [Nodes(n) -> Nodes(n)] : \A a, b \in Nodes(n) : a # b => k[a] # k[b]}]

Bijections(n) == AllBijections[n]

\* tuple comparison k < l of two permutations
PermLess(k, l) ==
    \E i \in DOMAIN k : k[i] < l[i] /\ \A j \in 0 .. (i - 1) : k[j] = l[j]

\* the permutations as the list itertools.permutations yields (ascending)
InOrder(S) ==
    LET rank == [k \in S |-> Cardinality({l \in S : PermLess(l, k)}) + 1]
    IN  [r \in 1 .. Cardinality(S) |-> CHOOSE k \in S : rank[k] = r] \o << >>

\* seed(n): every permutation of range(n)
seed(n) == InOrder(Bijections(n))

\* a variant of the sum that leaves out the second matrix
MatFirst(a, b) == a

\* the element-wise sum built by the loop over coeffs
MatAdd(a, b) == [i \in DOMAIN a |-> [j \in DOMAIN a |-> a[i][j] + b[i][j]]]

\* diagram_generation(n): sums of two traceless permutation matrices, each once,
\* in descending order
diagram_generation(n) ==
    LET seeds == seed(n)
        all == [s \in DOMAIN seeds |->
                  [r \in Nodes(n) |-> [i \in Nodes(n) |-> IF i # seeds[s][r] THEN 0 ELSE 1]]]
        traceless == g(all)
        L == Len(traceless)
        \* itertools.combinations_with_replacement(range(L), 2), pair (a, b) with a <= b
        double == Flatten([a \in 1 .. L |->
                      [b \in 1 .. (L - a + 1) |-> MatAdd(traceless[a], traceless[a + b - 1])]])
        doubleUniq == Uniq(double)
    IN  SortReverse(doubleUniq)

(***************************************************************************)
(* BMBPT enumeration (adg.py, BMBPT_generation and BMBPT_Norm_generation). *)
(***************************************************************************)
\* deg_max = 4, or 6 with three-body forces
deg_max(three) == IF three THEN 6 ELSE 4

\* a variant of the while loop with "<" for "<="
BranchesBelow(mat, row, col, degree, three) ==
    <<mat>> \o [elem \in 1 .. (deg_max(three) - degree - 1) |->
                  [mat EXCEPT ![row] = [mat[row] EXCEPT ![col] = elem]]]

\* mat followed by its copies with entry [row][col] set to 1, 2, ... while
\* elem + degree <= deg_max
Branches(mat, row, col, degree, three) ==
    <<mat>> \o [elem \in 1 .. (deg_max(three) - degree) |->
                  [mat EXCEPT ![row] = [mat[row] EXCEPT ![col] = elem]]]

\* j0_degree: the lines already entering vertex 0
j0_degree(mat) ==
    SumOver([k \in DOMAIN mat \ {0} |-> mat[k][0]], DOMAIN mat \ {0})

\* one turn of the loop "for i0 in range(1, p_order)" of BMBPT_generation
Col0Step(mats, i0, three) ==
    Flatten([k \in DOMAIN mats |-> Branches(mats[k], i0, 0, j0_degree(mats[k]), three)])

\* deg_j0_ok: the degree test on the lines entering vertex 0
Col0Prune(mats, three) ==
    Filter(mats, [k \in DOMAIN mats |-> DegreeOk(j0_degree(mats[k]), three)])

\* first half of a turn of "for sum_index": lines from sum_index to vertex
PairIn(mats, vertex, sum_index, three) ==
    Flatten([k \in DOMAIN mats |->
        IF mats[k][vertex][sum_index] = 0
        THEN Branches(mats[k], sum_index, vertex, VertexDegree(mats[k], vertex), three)
        ELSE <<mats[k]>>])

\* second half: lines from vertex to sum_index
PairOut(mats, vertex, sum_index, three) ==
    Flatten([k \in DOMAIN mats |->
        IF mats[k][sum_index][vertex] = 0
        THEN Branches(mats[k], vertex, sum_index, VertexDegree(mats[k], vertex), three)
        ELSE <<mats[k]>>])

\* one turn of the loop "for sum_index in range(vertex+1, p_order)"
PairStep(mats, vertex, sum_index, three) ==
    PairOut(PairIn(mats, vertex, sum_index, three), vertex, sum_index, three)

\* a variant of deg_vertex_ok that keeps every matrix
VertexPruneNone(mats, vertex, three) == mats

\* deg_vertex_ok: the degree test on vertex once all its lines are set
VertexPrune(mats, vertex, three) ==
    Filter(mats, [k \in DOMAIN mats |-> DegreeOk(VertexDegree(mats[k], vertex), three)])

\* the end of both generators: check_degree, no_loop, exact duplicates out,
\* descending sort
FinishGeneration(mats, three) ==
    SortReverse(Uniq(no_loop(check_degree(mats, three))))

(***************************************************************************)
(* Graphs (networkx MultiDiGraph built from a matrix).                     *)
(***************************************************************************)
\* nx.from_numpy_matrix(diagram, create_using=nx.MultiDiGraph(), parallel_edges=True):
\* adj[i][j] parallel lines from i to j; operator[v] is the node attribute
\* 'operator', FALSE standing also for an attribute not set (the value
\* categorical_node_match('operator', False) reads then)
from_numpy_matrix(matrix) ==
    [adj |-> matrix, operator |-> [v \in DOMAIN matrix |-> FALSE]]

\* the vertices reached from those of S along lines taken in either direction
Neighbours(adj, S) ==
    S \cup {v \in DOMAIN adj : \E u \in S : adj[u][v] # 0 \/ adj[v][u] # 0}

RECURSIVE Reach(_, _)
Reach(adj, S) ==
    IF Neighbours(adj, S) = S THEN S ELSE Reach(adj, Neighbours(adj, S))

RECURSIVE CountComponents(_, _)
CountComponents(adj, left) ==
    IF left = {} THEN 0
    ELSE LET v == CHOOSE u \in left : TRUE
         IN  1 + CountComponents(adj, left \ Reach(adj, {v}))

\* nx.number_weakly_connected_components(diag)
number_weakly_connected_components(graph) ==
    CountComponents(graph.adj, DOMAIN graph.adj)

\* diag.degree(node)
degree(graph, node) == VertexDegree(graph.adj, node)

\* the loop "for node in diag: operator = False" and "diag.node[0]['operator'] = True"
\* of the BMBPT reduction (norm == False)
LabelOperator(graph) ==
    [graph EXCEPT !.operator = [v \in DOMAIN graph.adj |-> v = 0]]

\* a variant of the comparison that does not rename the vertices
is_identical(g1, g2, node_match) ==
    /\ g1.adj = g2.adj
    /\ node_match => g1.operator = g2.operator

\* nx.is_isomorphic(g1, g2[, node_match=nm]): a bijection of the vertices that keeps
\* the number of lines of every ordered pair and, with node_match, the operator flag
is_isomorphic(g1, g2, node_match) ==
    /\ Dim(g1.adj) = Dim(g2.adj)
    /\ \E m \in Bijections(Dim(g1.adj)) :
          /\ \A i, j \in DOMAIN g1.adj : g1.adj[i][j] = g2.adj[m[i]][m[j]]
          /\ node_match => \A i \in DOMAIN g1.adj : g1.operator[i] = g2.operator[m[i]]

(***************************************************************************)
(* Text files.  A file is the list of its whitespace-separated tokens, a   *)
(* line break being the token NL; text written right after a token, with   *)
(* no white space between, continues that token.                           *)
(***************************************************************************)
NL == "\n"

\* f.write(...) of text whose tokens are toks (the text neither starts nor ends
\* with a blank)
FileWrite(text, toks) ==
    IF toks = << >> THEN text
    ELSE IF text # << >> /\ text[Len(text)] # NL /\ toks[1] # NL
    THEN SubSeq(text, 1, Len(text) - 1)
             \o <<text[Len(text)] \o toks[1]>> \o SubSeq(toks, 2, Len(toks))
    ELSE text \o toks

\* '%.18e' % x, numpy.savetxt's default format, for an entry 0 <= x <= 9
FormatFloat(x) == ToString(x) \o ".000000000000000000e+00"

\* '%d' % x and '%i' % x
FormatInt(x) == ToString(x)

RECURSIVE WriteFrom(_, _, _)
\* the text left by the consecutive writes chunks[lo], ..., chunks[hi], by halves
WriteFrom(chunks, lo, hi) ==
    IF lo > hi THEN << >>
    ELSE IF lo = hi THEN chunks[lo]
    ELSE LET mid == (lo + hi) \div 2
         IN  FileWrite(WriteFrom(chunks, lo, mid), WriteFrom(chunks, mid + 1, hi))

WriteAll(chunks) == WriteFrom(chunks, 1, Len(chunks))

\* one row as numpy.savetxt writes it: the entries joined by blanks, then "\n"
\* (float names the default format '%.18e', otherwise fmt='%d')
RowText(matrix, row, float) ==
    [c \in 1 .. Dim(matrix) |->
        IF float THEN FormatFloat(matrix[row][c - 1])
        ELSE FormatInt(matrix[row][c - 1])] \o <<NL>>

\* the writes of the loop producing Diagrams.list in adg.py, per diagram i:
\* f.write("Diagram n: %i" % i), np.savetxt(f, diagram) row by row, f.write("\n")
DiagramsListWrites(mats) ==
    Flatten([k \in DOMAIN mats |->
        <<<<"Diagram", "n:", FormatInt(k - 1)>>>>
        \o [r \in 1 .. Dim(mats[k]) |-> RowText(mats[k], r - 1, TRUE)]
        \o << <<NL>> >>])

DiagramsList(mats) == WriteAll(DiagramsListWrites(mats))

\* nx.to_numpy_matrix(diagram.graph, dtype=int)
to_numpy_matrix(graph) == graph.adj

\* print_adj_matrices of adg/diag.py, the text left in adjacency_matrices.txt: per
\* diagram idx, mat_file.write("Diagram n: %i\n" % (idx + 1)), numpy.savetxt with
\* fmt='%d' row by row, mat_file.write("\n")
print_adj_matrices(diags) ==
    WriteAll(Flatten([k \in DOMAIN diags |->
        <<<<"Diagram", "n:", FormatInt(k), NL>>>>
        \o [r \in 1 .. Dim(to_numpy_matrix(diags[k].graph)) |->
               RowText(to_numpy_matrix(diags[k].graph), r - 1, FALSE)]
        \o << <<NL>> >>]))

(***************************************************************************)
(* The main script, adg.py.                                                *)
(***************************************************************************)
VARIABLES
    norder,         \* int(raw_input('Order of the diagrams ?'))
    theory,         \* raw_input('MBPT or BMBPT ?')
    three_N,        \* three-body forces included
    norm,           \* norm kernel instead of operator kernels
    pc,             \* the place the script has reached
    temp_matrices,  \* the partial matrices of the BMBPT generators
    matrices,       \* the generators' list "matrices" after a pruning
    vertex,         \* loop variable i0, then vertex, of the generators
    sum_index,      \* loop variable sum_index of the generators
    diagrams,       \* the adjacency matrices the generator returned
    listfile,       \* the text of Diagrams.list
    G,              \* the list of graphs
    G1,             \* the list a filter is building
    idx,            \* position of the running "for diag in ..." loop
    G2, G3,         \* two-body and three-body diagrams
    G2_HF, G2_EHF, G2_noHF,
    G3_HF, G3_EHF, G3_noHF,
    type_edg,       \* 'h' or 'p' for each line of the diagram last treated
    n_holes,        \* its number of lines typed 'h'
    mat_els,        \* the matrix elements of every diagram
    denoms,         \* the energy denominators, each the list of the pieces written
    phases,         \* the phase factors
    nedges_eq,      \* the symmetry factors
    pdraw,          \* 'Generate diagrams feymanmf instructions ?'
    pdiag,          \* 'Include diagrams in tex ?'
    diagram_files,  \* the files Diagrams/diag_0.tex, diag_1.tex, ...
    latex_file      \* result.tex: the texts written to it, in order

\* the library routines are run on inputs of their own
VARIABLES
    td_diagrams,    \* the list given to topologically_distinct_diagrams
    td_input,       \* that list as it was at the call
    td_first,       \* the list the first call returned
    i_diag,         \* loop variable of the canonicalizer (0-based, as in the source)
    td_pass,        \* 1 during the first call, 2 during the call on its result
    td_pc,          \* "idle", "loop" or "returned"
    md_diagrams,    \* the list given to topologically_distinct_diags of methods.py
    md_pc,          \* "idle", "call" or "returned"
    lv_graphs,      \* the list given to label_vertices
    lv_theory,      \* its theory_type
    lv_norm,        \* its study_norm (methods.py)
    lv_impl,        \* the module whose label_vertices is called
    lv_pc,          \* "idle", "call" or "returned"
    fl_input,       \* the list of matrices given to a filter
    fl_call,        \* the filter called and its other arguments
    fl_out,         \* the list it returns or, filtering in place, leaves
    fl_pc,          \* "idle", "call" or "returned"
    lib_call,       \* the routine of adg/diag.py called on arguments of its own
    lib_input,      \* its arguments at the call
    lib_after,      \* the objects given as arguments, once it has returned
    lib_out,        \* what it returns
    lib_pc          \* "idle", "call" or "returned"

canonVars == <<td_diagrams, td_input, td_first, i_diag, td_pass, td_pc, md_diagrams, md_pc>>
labelVars == <<lv_graphs, lv_theory, lv_norm, lv_impl, lv_pc>>
filterVars == <<fl_input, fl_call, fl_out, fl_pc>>
routineVars == <<lib_call, lib_input, lib_after, lib_out, lib_pc>>
libVars == <<canonVars, labelVars, filterVars, routineVars>>

\* the library routines are not called
CanonIdle ==
    /\ td_diagrams = << >> /\ td_input = << >> /\ td_first = << >>
    /\ i_diag = 0 /\ td_pass = 0 /\ td_pc = "idle"
    /\ md_diagrams = << >> /\ md_pc = "idle"

LabelIdle ==
    /\ lv_graphs = << >> /\ lv_theory = "" /\ lv_norm = FALSE
    /\ lv_impl = "" /\ lv_pc = "idle"

FilterIdle ==
    /\ fl_input = << >> /\ fl_call = "" /\ fl_out = << >> /\ fl_pc = "idle"

RoutineIdle ==
    /\ lib_call = "" /\ lib_input = << >> /\ lib_after = << >> /\ lib_out = << >>
    /\ lib_pc = "idle"

mainVars == <<norder, theory, three_N, norm, pc, temp_matrices, matrices, vertex,
              sum_index, diagrams, listfile, G, G1, idx, G2, G3,
              G2_HF, G2_EHF, G2_noHF, G3_HF, G3_EHF, G3_noHF,
              type_edg, n_holes, mat_els, denoms, phases, nedges_eq,
              pdraw, pdiag, diagram_files, latex_file>>

configVars == <<norder, theory, three_N, norm>>
genVars == <<temp_matrices, matrices, vertex, sum_index>>
bucketVars == <<G2, G3, G2_HF, G2_EHF, G2_noHF, G3_HF, G3_EHF, G3_noHF>>
exprVars == <<type_edg, n_holes, mat_els, denoms, phases, nedges_eq>>
texVars == <<pdraw, pdiag, diagram_files, latex_file>>
tailVars == <<exprVars, texVars>>

\* nothing of the expressions and of the document is there yet
TailIdle ==
    /\ type_edg = << >> /\ n_holes = 0
    /\ mat_els = << >> /\ denoms = << >> /\ phases = << >> /\ nedges_eq = << >>
    /\ pdraw = FALSE /\ pdiag = FALSE
    /\ diagram_files = << >> /\ latex_file = << >>

\* the answers the prompts accept: "SCGF" stands for any name other than MBPT
\* and BMBPT
Theories == {"MBPT", "BMBPT", "SCGF"}

\* the largest order the model runs for a configuration
OrderBound(th, three) ==
    IF th = "BMBPT" THEN (IF three THEN MaxOrder3N ELSE MaxOrderBMBPT)
    ELSE MaxOrderMBPT

\* the state once the prompts are answered (lines 31-38): three_N and norm are
\* asked for BMBPT only; any integer is taken for the order, 0 standing here for
\* the answers below 1 (range(n) is empty for each of them)
InitMain ==
    /\ theory \in Theories
    /\ three_N \in BOOLEAN
    /\ norm \in BOOLEAN
    /\ theory # "BMBPT" => (~three_N /\ ~norm)
    /\ norder \in 0 .. OrderBound(theory, three_N)
    /\ pc = "input"
    /\ temp_matrices = << >>
    /\ matrices = << >>
    /\ vertex = 0
    /\ sum_index = 0
    /\ diagrams = << >>
    /\ listfile = << >>
    /\ G = << >>
    /\ G1 = << >>
    /\ idx = 0
    /\ G2 = << >> /\ G3 = << >>
    /\ G2_HF = << >> /\ G2_EHF = << >> /\ G2_noHF = << >>
    /\ G3_HF = << >> /\ G3_EHF = << >> /\ G3_noHF = << >>
    /\ TailIdle

\* theory == "MBPT": diagrams = diagram_generation(norder)
GenerateMBPT ==
    /\ pc = "input" /\ theory = "MBPT"
    /\ diagrams' = diagram_generation(norder)
    /\ pc' = "write"
    /\ UNCHANGED <<configVars, genVars, listfile, G, G1, idx, bucketVars, tailVars, libVars>>

\* theory == "BMBPT", norm False: BMBPT_generation starts from the empty matrix
BeginBMBPT ==
    /\ pc = "input" /\ theory = "BMBPT" /\ ~norm
    /\ temp_matrices' = <<empty_mat(norder)>>
    /\ matrices' = << >>
    /\ vertex' = 1
    /\ pc' = "gen_col0"
    /\ UNCHANGED <<configVars, sum_index, diagrams, listfile, G, G1, idx, bucketVars, tailVars, libVars>>

\* theory == "BMBPT", norm True: BMBPT_Norm_generation starts from the empty matrix
BeginNorm ==
    /\ pc = "input" /\ theory = "BMBPT" /\ norm
    /\ temp_matrices' = <<empty_mat(norder)>>
    /\ matrices' = << >>
    /\ vertex' = 0
    /\ sum_index' = 1
    /\ pc' = "gen_pair"
    /\ UNCHANGED <<configVars, diagrams, listfile, G, G1, idx, bucketVars, tailVars, libVars>>

\* any other theory: "Invalid theory" is printed and len(diagrams) on the next
\* line raises NameError
InvalidTheory ==
    /\ pc = "input" /\ theory \notin {"MBPT", "BMBPT"}
    /\ pc' = "crashed"
    /\ UNCHANGED <<configVars, genVars, diagrams, listfile, G, G1, idx, bucketVars, tailVars, libVars>>

\* one turn of "for i0 in range(1, p_order)"
GenCol0Step ==
    /\ pc = "gen_col0" /\ vertex < norder
    /\ temp_matrices' = Col0Step(temp_matrices, vertex, three_N)
    /\ matrices' = temp_matrices'
    /\ vertex' = vertex + 1
    /\ UNCHANGED <<configVars, pc, sum_index, diagrams, listfile, G, G1, idx, bucketVars, tailVars, libVars>>

\* the degree test on vertex 0, then on to "for vertex in range(1, p_order)"
GenCol0Prune ==
    /\ pc = "gen_col0" /\ vertex >= norder
    /\ temp_matrices' = Col0Prune(temp_matrices, three_N)
    /\ matrices' = temp_matrices'
    /\ vertex' = 1
    /\ sum_index' = 2
    /\ pc' = "gen_pair"
    /\ UNCHANGED <<configVars, diagrams, listfile, G, G1, idx, bucketVars, tailVars, libVars>>

\* one turn of "for sum_index in range(vertex+1, p_order)"
GenPairStep ==
    /\ pc = "gen_pair" /\ vertex < norder /\ sum_index < norder
    /\ temp_matrices' = PairStep(temp_matrices, vertex, sum_index, three_N)
    /\ sum_index' = sum_index + 1
    /\ UNCHANGED <<configVars, pc, matrices, vertex, diagrams, listfile, G, G1, idx,
                   bucketVars, tailVars, libVars>>

\* the degree test on vertex at the end of a turn of "for vertex"
GenVertexPrune ==
    /\ pc = "gen_pair" /\ vertex < norder /\ sum_index >= norder
    /\ temp_matrices' = VertexPrune(temp_matrices, vertex, three_N)
    /\ matrices' = temp_matrices'
    /\ vertex' = vertex + 1
    /\ sum_index' = vertex + 2
    /\ UNCHANGED <<configVars, pc, diagrams, listfile, G, G1, idx, bucketVars, tailVars, libVars>>

\* BMBPT_Norm_generation assigns its list "matrices" inside "for vertex" only:
\* when the loop has no turn, check_degree(matrices, three_N) raises
\* UnboundLocalError
GenUnbound ==
    /\ pc = "gen_pair" /\ vertex >= norder
    /\ norm /\ norder < 1
    /\ pc' = "crashed"
    /\ UNCHANGED <<configVars, genVars, diagrams, listfile, G, G1, idx, bucketVars, tailVars, libVars>>

\* the generator's last lines and its return (its local lists are gone with it)
GenFinish ==
    /\ pc = "gen_pair" /\ vertex >= norder
    /\ ~(norm /\ norder < 1)
    /\ diagrams' = FinishGeneration(matrices, three_N)
    /\ temp_matrices' = << >>
    /\ matrices' = << >>
    /\ pc' = "write"
    /\ UNCHANGED <<configVars, vertex, sum_index, listfile, G, G1, idx, bucketVars, tailVars, libVars>>

\* Diagrams.list is written (lines 322-329)
WriteList ==
    /\ pc = "write"
    /\ listfile' = DiagramsList(diagrams)
    /\ pc' = "graph"
    /\ UNCHANGED <<configVars, genVars, diagrams, G, G1, idx, bucketVars, tailVars, libVars>>

\* G: one MultiDiGraph per matrix (lines 332-335)
BuildGraphs ==
    /\ pc = "graph"
    /\ \A k \in DOMAIN diagrams : Dim(diagrams[k]) > 0
    /\ G' = [k \in DOMAIN diagrams |-> from_numpy_matrix(diagrams[k])]
    /\ G1' = << >>
    /\ idx' = 1
    /\ pc' = "connect"
    /\ UNCHANGED <<configVars, genVars, diagrams, listfile, bucketVars, tailVars, libVars>>

\* nx.from_numpy_matrix raises on np.array([]), which has one dimension only
BuildGraphsFail ==
    /\ pc = "graph"
    /\ \E k \in DOMAIN diagrams : Dim(diagrams[k]) = 0
    /\ pc' = "crashed"
    /\ UNCHANGED <<configVars, genVars, diagrams, listfile, G, G1, idx, bucketVars, tailVars, libVars>>

\* a variant of the connectivity loop without its test
ConnectStepNoTest ==
    /\ pc = "connect" /\ idx <= Len(G)
    /\ G1' = Append(G1, G[idx])
    /\ idx' = idx + 1
    /\ UNCHANGED <<configVars, genVars, pc, diagrams, listfile, G, bucketVars, tailVars, libVars>>

\* one turn of the connectivity loop (lines 336-339)
ConnectStep ==
    /\ pc = "connect" /\ idx <= Len(G)
    /\ G1' = IF number_weakly_connected_components(G[idx]) = 1
             THEN Append(G1, G[idx]) ELSE G1
    /\ idx' = idx + 1
    /\ UNCHANGED <<configVars, genVars, pc, diagrams, listfile, G, bucketVars, tailVars, libVars>>

\* G = G1 (line 340); the reduction that follows, which starts with G1 = []
\* (line 342), is for BMBPT only
ConnectDone ==
    /\ pc = "connect" /\ idx > Len(G)
    /\ G' = G1
    /\ G1' = IF theory = "BMBPT" THEN << >> ELSE G1
    /\ idx' = 1
    /\ pc' = IF theory = "BMBPT" THEN "reduce" ELSE "done"
    /\ UNCHANGED <<configVars, genVars, diagrams, listfile, bucketVars, tailVars, libVars>>

\* one turn of the reduction loop (lines 343-363): the diagram is labelled
\* (norm False) and kept unless a kept diagram is isomorphic to it
ReduceStep ==
    /\ pc = "reduce" /\ idx <= Len(G)
    /\ LET diag == IF norm THEN G[idx] ELSE LabelOperator(G[idx])
       IN  /\ G' = [G EXCEPT ![idx] = diag]
           /\ G1' = IF \E k \in DOMAIN G1 : is_isomorphic(diag, G1[k], ~norm)
                    THEN G1 ELSE Append(G1, diag)
    /\ idx' = idx + 1
    /\ UNCHANGED <<configVars, genVars, pc, diagrams, listfile, bucketVars, tailVars, libVars>>

\* G = G1 (line 364)
ReduceDone ==
    /\ pc = "reduce" /\ idx > Len(G)
    /\ G' = G1
    /\ idx' = 1
    /\ pc' = "split"
    /\ UNCHANGED <<configVars, genVars, diagrams, listfile, G1, bucketVars, tailVars, libVars>>

\* max(diag.degree(node) for node in diag), starting from 0
MaxDegree(graph) ==
    LET degs == {degree(graph, v) : v \in DOMAIN graph.adj} \cup {0}
    IN  CHOOSE d \in degs : \A e \in degs : e <= d

\* a variant of the turn that appends to the other list
SplitStepSwapped ==
    /\ pc = "split" /\ idx <= Len(G)
    /\ IF MaxDegree(G[idx]) = 6
       THEN G2' = Append(G2, G[idx]) /\ G3' = G3
       ELSE G3' = Append(G3, G[idx]) /\ G2' = G2
    /\ idx' = idx + 1
    /\ UNCHANGED <<configVars, genVars, pc, diagrams, listfile, G, G1,
                   G2_HF, G2_EHF, G2_noHF, G3_HF, G3_EHF, G3_noHF, tailVars, libVars>>

\* one turn of the loop sorting the diagrams into G2 and G3 (lines 378-385)
SplitStep ==
    /\ pc = "split" /\ idx <= Len(G)
    /\ IF MaxDegree(G[idx]) = 6
       THEN G3' = Append(G3, G[idx]) /\ G2' = G2
       ELSE G2' = Append(G2, G[idx]) /\ G3' = G3
    /\ idx' = idx + 1
    /\ UNCHANGED <<configVars, genVars, pc, diagrams, listfile, G, G1,
                   G2_HF, G2_EHF, G2_noHF, G3_HF, G3_EHF, G3_noHF, tailVars, libVars>>

SplitDone ==
    /\ pc = "split" /\ idx > Len(G)
    /\ idx' = 1
    /\ pc' = "bucket2"
    /\ UNCHANGED <<configVars, genVars, diagrams, listfile, G, G1, bucketVars, tailVars, libVars>>

\* test_HF: no vertex of degree 2
test_HF(graph) == \A node \in DOMAIN graph.adj : degree(graph, node) # 2

\* a variant of test_EHF without "if node != 0"
test_EHF_any_node(graph) == \A node \in DOMAIN graph.adj : degree(graph, node) # 2

\* test_EHF: no vertex other than 0 of degree 2
test_EHF(graph) == \A node \in DOMAIN graph.adj \ {0} : degree(graph, node) # 2

\* a variant of the bucket choice with "and" for "or"
BucketAnd(graph, nrm) ==
    IF test_HF(graph) THEN "HF"
    ELSE IF ~test_EHF(graph) /\ nrm THEN "noHF"
    ELSE "EHF"

\* the bucket lines 394-399 (and 408-413) choose
Bucket(graph, nrm) ==
    IF test_HF(graph) THEN "HF"
    ELSE IF ~test_EHF(graph) \/ nrm THEN "noHF"
    ELSE "EHF"

\* one turn of "for diag in G2" (lines 386-399)
Bucket2Step ==
    /\ pc = "bucket2" /\ idx <= Len(G2)
    /\ G2_HF' = IF Bucket(G2[idx], norm) = "HF" THEN Append(G2_HF, G2[idx]) ELSE G2_HF
    /\ G2_EHF' = IF Bucket(G2[idx], norm) = "EHF" THEN Append(G2_EHF, G2[idx]) ELSE G2_EHF
    /\ G2_noHF' = IF Bucket(G2[idx], norm) = "noHF" THEN Append(G2_noHF, G2[idx]) ELSE G2_noHF
    /\ idx' = idx + 1
    /\ UNCHANGED <<configVars, genVars, pc, diagrams, listfile, G, G1, G2, G3,
                   G3_HF, G3_EHF, G3_noHF, tailVars, libVars>>

Bucket2Done ==
    /\ pc = "bucket2" /\ idx > Len(G2)
    /\ idx' = 1
    /\ pc' = "bucket3"
    /\ UNCHANGED <<configVars, genVars, diagrams, listfile, G, G1, bucketVars, tailVars, libVars>>

\* one turn of "for diag in G3" (lines 400-413)
Bucket3Step ==
    /\ pc = "bucket3" /\ idx <= Len(G3)
    /\ G3_HF' = IF Bucket(G3[idx], norm) = "HF" THEN Append(G3_HF, G3[idx]) ELSE G3_HF
    /\ G3_EHF' = IF Bucket(G3[idx], norm) = "EHF" THEN Append(G3_EHF, G3[idx]) ELSE G3_EHF
    /\ G3_noHF' = IF Bucket(G3[idx], norm) = "noHF" THEN Append(G3_noHF, G3[idx]) ELSE G3_noHF
    /\ idx' = idx + 1
    /\ UNCHANGED <<configVars, genVars, pc, diagrams, listfile, G, G1, G2, G3,
                   G2_HF, G2_EHF, G2_noHF, tailVars, libVars>>

\* a variant of the concatenation with the noHF diagrams ahead of the EHF ones
AssembleNoHFFirst ==
    /\ pc = "bucket3" /\ idx > Len(G3)
    /\ G' = G2_HF \o G2_noHF \o G2_EHF \o G3_HF \o G3_noHF \o G3_EHF
    /\ pc' = "done"
    /\ UNCHANGED <<configVars, genVars, diagrams, listfile, G1, idx, bucketVars, tailVars, libVars>>

\* G = G2_HF + G2_EHF + G2_noHF + G3_HF + G3_EHF + G3_noHF (line 414)
Assemble ==
    /\ pc = "bucket3" /\ idx > Len(G3)
    /\ G' = G2_HF \o G2_EHF \o G2_noHF \o G3_HF \o G3_EHF \o G3_noHF
    /\ pc' = "done"
    /\ UNCHANGED <<configVars, genVars, diagrams, listfile, G1, idx, bucketVars, tailVars, libVars>>

\* the counts of lines 415-422
nb_2 == Len(G2)
nb_2_HF == Len(G2_HF)
nb_2_EHF == Len(G2_EHF)
nb_2_noHF == Len(G2_noHF)
nb_3 == Len(G3)
nb_3_HF == Len(G3_HF)
nb_3_EHF == Len(G3_EHF)
nb_3_noHF == Len(G3_noHF)

(***************************************************************************)
(* The algebraic expressions, for MBPT only (adg.py, lines 426-509).  An   *)
(* expression is the string the script builds; a denominator is kept as    *)
(* the list of the pieces it is made of, a sign (" +" or "-") and the      *)
(* energy ("E_a") it stands before being two pieces.                       *)
(***************************************************************************)
\* diag.edges(): the lines (source, target) of the graph, source after source
\* and for a source target after target, parallel lines one after the other
edges(graph) ==
    LET n == Dim(graph.adj)
    IN  Flatten([p \in 1 .. (n * n) |->
            [c \in 1 .. graph.adj[(p - 1) \div n][(p - 1) % n] |->
                <<(p - 1) \div n, (p - 1) % n>>]])

\* - nx.incidence_matrix(diag, oriented=True).todense(), column after column:
\* networkx writes -1 at the source of the line and then 1 at its target, and
\* the script changes the signs
incidence(graph) ==
    LET lines == edges(graph)
    IN  [col \in DOMAIN lines |->
            [row \in DOMAIN graph.adj |->
                IF row = lines[col][2] THEN -1
                ELSE IF row = lines[col][1] THEN 1 ELSE 0]]

\* flat.index(value): the first row holding value
flat_index(flat, value) == Least({row \in DOMAIN flat : flat[row] = value})

\* a variant of the test with the comparison the other way round
edge_type_swapped(flat) == IF flat_index(flat, 1) > flat_index(flat, -1) THEN "h" ELSE "p"

\* 'h' if flat.index(1) < flat.index(-1), else 'p'
edge_type(flat) == IF flat_index(flat, 1) < flat_index(flat, -1) THEN "h" ELSE "p"

\* line_label_h(n): the n-th of the letters a to o
line_label_h(n) ==
    <<"a", "b", "c", "d", "e", "f", "g", "h", "i", "j", "k", "l", "m", "n", "o">>[n + 1]

\* line_label_p(n): the n-th of the letters p to y
line_label_p(n) ==
    <<"p", "q", "r", "s", "t", "u", "v", "w", "x", "y">>[n + 1]

\* the label of the line of column col (columns counted from 0 in the source)
line_label(types, col) ==
    IF types[col] = "h" THEN line_label_h(col - 1) ELSE line_label_p(col - 1)

RECURSIVE Concat(_)
\* the strings of the list put end to end
Concat(strs) == IF strs = << >> THEN "" ELSE strs[1] \o Concat(Tail(strs))

\* bra (value 1) or ket (value -1) of a row: the labels of the lines whose
\* column holds value in that row
bra_ket(inc, types, row, value) ==
    Concat([col \in DOMAIN inc |->
               IF inc[col][row] = value THEN line_label(types, col) ELSE ""])

\* braket: '\braket{bra|H|ket}' row after row
braket(inc, types, nrow) ==
    Concat([r \in 1 .. nrow |->
               "\\braket{" \o bra_ket(inc, types, r - 1, 1) \o "|H|"
                   \o bra_ket(inc, types, r - 1, -1) \o "}"])

\* a variant of val_test that takes in the row itself: incidence[0:row+1,col]
val_test_incl(inc, row, col) ==
    SumOver([r \in 0 .. row |-> inc[col][r]], 0 .. row)

\* val_test = incidence[0:row,col].sum()
val_test(inc, row, col) ==
    SumOver([r \in 0 .. (row - 1) |-> inc[col][r]], 0 .. (row - 1))

\* the pieces "for row in range(1,nrow)" adds to denom
denom_pieces(inc, types, nrow) ==
    Flatten([row \in 1 .. (nrow - 1) |->
        <<"(">>
        \o Flatten([col \in DOMAIN inc |->
               IF val_test(inc, row, col) = 1
               THEN <<" +", "E_" \o line_label(types, col)>>
               ELSE IF val_test(inc, row, col) = -1
               THEN <<"-", "E_" \o line_label(types, col)>>
               ELSE << >>])
        \o <<")">>])

\* denom.replace('( +','('): "( +" can only be a "(" and the " +" after it;
\* denom.strip(' ') then finds no blank at either end
denom_replace(pieces) ==
    Filter(pieces, [k \in DOMAIN pieces |->
                       ~(pieces[k] = " +" /\ k > 1 /\ pieces[k - 1] = "(")])

\* a variant of n_sym that counts the lines whatever their direction
n_sym_unsigned(inc) ==
    Len(inc) - Cardinality({{row \in DOMAIN inc[col] : inc[col][row] # 0} :
                               col \in DOMAIN inc})

\* n_sym = len(eq_lines) - len(neq_lines): the lines less the different rows
\* of the transposed incidence matrix
n_sym(inc) == Len(inc) - Cardinality({inc[col] : col \in DOMAIN inc})

\* line 441: the expressions are for MBPT only
BeginExpressions ==
    /\ pc = "done"
    /\ pc' = IF theory = "MBPT" THEN "express" ELSE "draw"
    /\ idx' = 1
    /\ UNCHANGED <<configVars, genVars, diagrams, listfile, G, G1, bucketVars,
                   tailVars, libVars>>

\* one turn of "for diag in G" (lines 446-509); flat.index raises ValueError
\* on a column that lacks 1 or -1, the column of a line from a vertex to itself
ExpressStep ==
    /\ pc = "express" /\ idx <= Len(G)
    /\ LET diag == G[idx]
           inc == incidence(diag)
           nrow == Dim(diag.adj)
           lacking == {col \in DOMAIN inc :
                          \/ \A row \in DOMAIN inc[col] : inc[col][row] # 1
                          \/ \A row \in DOMAIN inc[col] : inc[col][row] # -1}
           typed == IF lacking = {} THEN Len(inc) ELSE Least(lacking) - 1
           types == [col \in 1 .. typed |-> edge_type(inc[col])]
           holes == Cardinality({col \in DOMAIN types : types[col] = "h"})
       IN  /\ type_edg' = types
           /\ n_holes' = holes
           /\ IF lacking = {}
              THEN /\ mat_els' = Append(mat_els, braket(inc, types, nrow))
                   /\ denoms' = Append(denoms, denom_replace(denom_pieces(inc, types, nrow)))
                   /\ phases' = Append(phases, "(-1)^{" \o FormatInt(holes) \o "+l}")
                   /\ nedges_eq' = Append(nedges_eq, 2 ^ n_sym(inc))
                   /\ idx' = idx + 1
                   /\ pc' = pc
              ELSE /\ pc' = "crashed"
                   /\ UNCHANGED <<mat_els, denoms, phases, nedges_eq, idx>>
    /\ UNCHANGED <<configVars, genVars, diagrams, listfile, G, G1, bucketVars,
                   texVars, libVars>>

\* the loop is over
ExpressDone ==
    /\ pc = "express" /\ idx > Len(G)
    /\ pc' = "draw"
    /\ UNCHANGED <<configVars, genVars, diagrams, listfile, G, G1, idx, bucketVars,
                   tailVars, libVars>>

(***************************************************************************)
(* The drawings and the document (adg.py, lines 513-683).  A file is the   *)
(* list of the strings written to it, one for each call of write; the file *)
(* of a drawing is read back as one string.  The directory of the run      *)
(* holds no drawing before the script writes one.                          *)
(***************************************************************************)
\* "\fmf{prop opt}{vj,vi}\n"
fmf_line(prop, opt, i, j) ==
    "\\fmf{" \o prop \o opt \o "}{v" \o FormatInt(j) \o ",v" \o FormatInt(i) \o "}\n"

\* what the double loop of feynmf_generator writes for the entry (i, j) of
\* oriented_adj_mat
propagators(prop, mat, i, j) ==
    LET m == mat[i][j]
    IN  IF (i - j = 1 \/ j - i = 1) /\ m # 0
        THEN IF m = 1
             THEN IF mat[j][i] # 1
                  THEN fmf_line(prop, "", i, j)
                  ELSE fmf_line(prop, ",right=0.5", i, j)
             ELSE fmf_line(prop, ",right=0.5", i, j)
                  \o fmf_line(prop, ",left=0.5", i, j)
                  \o (IF m = 3
                      THEN fmf_line(prop, "", i, j)
                      ELSE IF m >= 4
                      THEN fmf_line(prop, ",right=0.75", i, j)
                           \o fmf_line(prop, ",left=0.75", i, j)
                           \o (IF m >= 5
                               THEN fmf_line(prop, ",right=0.9", i, j)
                                    \o (IF m = 6
                                        THEN fmf_line(prop, ",left=0.9", i, j)
                                        ELSE "")
                               ELSE "")
                      ELSE "")
        ELSE IF i # j /\ m # 0
        THEN IF m = 1 /\ mat[j][i] = 2
             THEN fmf_line(prop, ",right=0.75", i, j)
             ELSE fmf_line(prop, ",right=0.6", i, j)
                  \o (IF m # 1
                      THEN fmf_line(prop, ",left=0.6", i, j)
                           \o (IF m # 2
                               THEN fmf_line(prop, ",right=0.75", i, j)
                                    \o (IF m # 3
                                        THEN fmf_line(prop, ",left=0.75", i, j)
                                             \o (IF m # 4
                                                 THEN fmf_line(prop, ",right=0.9", i, j)
                                                 ELSE "")
                                        ELSE "")
                               ELSE "")
                      ELSE "")
        ELSE ""

\* "\fmfv{d.shape=...,d.filled=full,d.size=3thick}{vn}\n"
fmfv_line(shape, n) ==
    "\\fmfv{d.shape=" \o shape \o ",d.filled=full,d.size=3thick}{v" \o FormatInt(n) \o "}\n"

\* the phantom lines that set the vertices one above the other (p_order > 2)
phantoms(p_order) ==
    "\\fmf{phantom}{v0,v1}\n"
    \o Concat([vtx \in 1 .. (p_order - 3) |->
                  "\\fmf{phantom}{v" \o FormatInt(vtx) \o ",v" \o FormatInt(vtx + 1) \o "}\n"
                  \o fmfv_line("circle", vtx)])
    \o fmfv_line("circle", p_order - 2)
    \o "\\fmf{phantom}{v" \o FormatInt(p_order - 2) \o ",v" \o FormatInt(p_order - 1) \o "}\n"
    \o "\\fmffreeze\n"

\* feynmf_generator: the text of the file diag_name.tex (empty below two
\* vertices)
feynmf_generator(diag, th, nrm, diag_name) ==
    LET p_order == Dim(diag.adj)
        diag_size == 20 * p_order
        prop == IF th = "MBPT" THEN "half_prop"
                ELSE IF th = "BMBPT" THEN "prop_pm" ELSE "double_arrow"
    IN  IF p_order >= 2
        THEN "\\parbox{" \o FormatInt(diag_size) \o "pt}{\\begin{fmffile}{" \o diag_name
             \o "}\n\\begin{fmfgraph*}(" \o FormatInt(diag_size) \o ","
             \o FormatInt(diag_size) \o ")\n"
             \o "\\fmftop{v" \o FormatInt(p_order - 1) \o "}\\fmfbottom{v0}\n"
             \o fmfv_line(IF th = "BMBPT" /\ ~nrm THEN "square" ELSE "circle", 0)
             \o fmfv_line("circle", p_order - 1)
             \o (IF p_order > 2 THEN phantoms(p_order) ELSE "")
             \o Concat([i \in 1 .. p_order |->
                   Concat([j \in 1 .. p_order |->
                       propagators(prop, diag.adj, i - 1, j - 1)])])
             \o "\\end{fmfgraph*}\n\\end{fmffile}}\n\n"
        ELSE ""

\* the prompt 'Generate diagrams feymanmf instructions ?' and the files
\* Diagrams/diag_i.tex, i from 0 (lines 601-608)
AskDraw ==
    /\ pc = "draw"
    /\ \E answer \in BOOLEAN :
          /\ pdraw' = answer
          /\ diagram_files' =
                IF answer
                THEN [k \in DOMAIN G |->
                         feynmf_generator(G[k], theory, norm, "diag_" \o FormatInt(k - 1))]
                ELSE diagram_files
    /\ pc' = "latex"
    /\ UNCHANGED <<configVars, genVars, diagrams, listfile, G, G1, idx, bucketVars,
                   exprVars, pdiag, latex_file, libVars>>

\* the header of result.tex
header(with_diag, land) ==
    "\\documentclass[10pt,a4paper]{article}\n \\usepackage[utf8]{inputenc}\n"
    \o "\\usepackage{braket}\n\\usepackage{graphicx}\n"
    \o "\\usepackage[english]{babel}\n\\usepackage{amsmath}\n"
    \o "\\usepackage{amsfonts}\n\\usepackage{amssymb}\n"
    \o (IF with_diag THEN "\\usepackage[force]{feynmp-auto}\n" ELSE "")
    \o (IF land THEN "\\usepackage[landscape]{geometry}\n" ELSE "")
    \o "\\title{Diagrams and algebraic expressions at order " \o FormatInt(norder)
    \o " in " \o theory \o "}\n"

\* the counts written at the head of the document for BMBPT (lines 637-648)
counts ==
    <<"Valid diagrams: " \o FormatInt(Len(G)) \o "\n\n",
      "2N valid diagrams: " \o FormatInt(nb_2) \o "\n\n",
      "2N canonical diagrams for the energy: " \o FormatInt(nb_2_HF) \o "\n\n">>
    \o (IF ~norm
        THEN <<"2N canonical diagrams for a generic operator only: "
               \o FormatInt(nb_2_EHF) \o "\n\n">>
        ELSE << >>)
    \o <<"2N non-canonical diagrams: " \o FormatInt(nb_2_noHF) \o "\n\n">>
    \o (IF three_N
        THEN <<"3N valid diagrams: " \o FormatInt(nb_3) \o "\n\n",
               "3N canonical diagrams for the energy: " \o FormatInt(nb_3_HF) \o "\n\n">>
             \o (IF ~norm
                 THEN <<"3N canonical diagrams for a generic operator only: "
                        \o FormatInt(nb_3_EHF) \o "\n\n">>
                 ELSE << >>)
             \o <<"3N non-canonical diagrams: " \o FormatInt(nb_3_noHF) \o "\n\n">>
        ELSE << >>)

\* the headings of the document
Heading2HF == "\\section{Two-body diagrams}\\subsection{Two-body energy canonical diagrams}\n"
Heading2EHF == "\\subsection{Two-body canonical diagrams for a generic operator only}\n"
Heading2noHF == "\\subsection{Two-body non-canonical diagrams}\n"
Heading3HF ==
    "\\section{Three-body diagrams}\n\\subsection{Three-body energy canonical diagrams}\n"
Heading3EHF == "\\subsection{Three-body canonical diagrams for a generic operator only}\n"
Heading3noHF == "\\subsection{Three-body non-canonical diagrams}\n"

\* the prompts 'Include diagrams in tex ?' and 'Expressions may be long rotate
\* pdf ?', and the head of result.tex down to the loop over the diagrams
\* (lines 611-650 and 658-660)
BeginLatex ==
    /\ pc = "latex"
    /\ \E diag_answer \in BOOLEAN :
       \E land \in IF norder > 3 THEN BOOLEAN ELSE {FALSE} :
          /\ pdiag' = diag_answer
          /\ latex_file' =
                <<header(diag_answer, land), "\\begin{document}\n", "\\maketitle\n",
                  "\\graphicspath{{Diagrams/}}">>
                \o (IF theory = "BMBPT" THEN counts \o <<Heading2HF>> ELSE << >>)
          /\ pc' = IF (~diag_answer \/ ~pdraw) /\ theory = "MBPT"
                   THEN "equations" ELSE "include"
    /\ idx' = 1
    /\ UNCHANGED <<configVars, genVars, diagrams, listfile, G, G1, bucketVars,
                   exprVars, pdraw, diagram_files, libVars>>

\* the equation of the diagram numbered i (MBPT)
equation(i) ==
    <<"\\begin{equation}\n",
      "\\dfrac{1}{" \o FormatInt(nedges_eq[i + 1]) \o "}" \o phases[i + 1]
      \o "\\sum{\\dfrac{" \o mat_els[i + 1] \o "}{" \o Concat(denoms[i + 1])
      \o "}}\n",
      "\\end{equation}\n">>

\* one turn of the loop that writes the equations alone (lines 652-656)
EquationStep ==
    /\ pc = "equations" /\ idx <= Len(G)
    /\ latex_file' = latex_file \o equation(idx - 1)
    /\ idx' = idx + 1
    /\ UNCHANGED <<configVars, genVars, pc, diagrams, listfile, G, G1, bucketVars,
                   exprVars, pdraw, pdiag, diagram_files, libVars>>

\* the headings written at the diagram numbered i (lines 662-675)
headings(i) ==
    IF theory = "BMBPT"
    THEN (IF i = nb_2_HF /\ ~norm THEN <<Heading2EHF>>
          ELSE IF i = nb_2_HF + nb_2_EHF THEN <<Heading2noHF>>
          ELSE << >>)
         \o (IF three_N
             THEN (IF i = nb_2 THEN <<Heading3HF>>
                   ELSE IF i = nb_2 + nb_3_HF /\ ~norm THEN <<Heading3EHF>>
                   ELSE IF i = nb_2 + nb_3_HF + nb_3_EHF THEN <<Heading3noHF>>
                   ELSE << >>)
             ELSE << >>)
    ELSE << >>

\* what a turn of the loop with the drawings writes before it opens the file
\* of the drawing (lines 662-680)
before_diag_file(i) ==
    headings(i)
    \o (IF theory = "MBPT" THEN equation(i) ELSE << >>)
    \o <<"\n\\begin{center}\n">>

\* one turn of the loop with the drawings (lines 661-682)
IncludeStep ==
    /\ pc = "include" /\ idx <= Len(G)
    /\ idx \in DOMAIN diagram_files
    /\ latex_file' = latex_file \o before_diag_file(idx - 1)
                     \o <<diagram_files[idx], "\\end{center}\n\n">>
    /\ idx' = idx + 1
    /\ UNCHANGED <<configVars, genVars, pc, diagrams, listfile, G, G1, bucketVars,
                   exprVars, pdraw, pdiag, diagram_files, libVars>>

\* open(directory+"/Diagrams/diag_%i.tex") raises IOError: there is no such
\* file
IncludeFail ==
    /\ pc = "include" /\ idx <= Len(G)
    /\ idx \notin DOMAIN diagram_files
    /\ latex_file' = latex_file \o before_diag_file(idx - 1)
    /\ pc' = "crashed"
    /\ UNCHANGED <<configVars, genVars, diagrams, listfile, G, G1, idx, bucketVars,
                   exprVars, pdraw, pdiag, diagram_files, libVars>>

\* "\end{document}" and the file is closed (lines 657, 683 and 684)
EndLatex ==
    /\ pc \in {"equations", "include"} /\ idx > Len(G)
    /\ latex_file' = Append(latex_file, "\\end{document}")
    /\ pc' = "closed"
    /\ UNCHANGED <<configVars, genVars, diagrams, listfile, G, G1, idx, bucketVars,
                   exprVars, pdraw, pdiag, diagram_files, libVars>>

NextMain ==
    \/ GenerateMBPT \/ BeginBMBPT \/ BeginNorm \/ InvalidTheory
    \/ GenCol0Step \/ GenCol0Prune \/ GenPairStep \/ GenVertexPrune \/ GenUnbound \/ GenFinish
    \/ WriteList \/ BuildGraphs \/ BuildGraphsFail
    \/ ConnectStep \/ ConnectDone \/ ReduceStep \/ ReduceDone
    \/ SplitStep \/ SplitDone \/ Bucket2Step \/ Bucket2Done \/ Bucket3Step \/ Assemble
    \/ BeginExpressions \/ ExpressStep \/ ExpressDone
    \/ AskDraw \/ BeginLatex \/ EquationStep \/ IncludeStep \/ IncludeFail \/ EndLatex

vars == <<mainVars, tailVars, libVars>>

\* the main script run on every configuration of the model
Init == InitMain /\ CanonIdle /\ LabelIdle /\ FilterIdle /\ RoutineIdle
Next == NextMain
Spec == Init /\ [][Next]_vars

\* the script is one sequential process: a statement that can run does run
\* (assumed of the runs of order at most 1, those that have a stage ending with
\* no diagram)
SpecLive == Spec /\ WF_vars(norder <= 1 /\ Next)


(***************************************************************************)
(* The canonicalizer of adg/diag.py, run on lists of Diagram objects.      *)
(***************************************************************************)
\* the longest list given to the canonicalizer
MaxDiagrams == 4

\* the longest list given to topologically_distinct_diags of methods.py
MaxMethodsDiagrams == 3

\* (in, out) pairs in the order of Python's tuple comparison
PairLess(p, q) == p[1] < q[1] \/ (p[1] = q[1] /\ p[2] < q[2])

\* Diagram.__init__: the graph, its sorted (in_degree, out_degree) pairs, tags [0]
Diagram(nx_graph) ==
    [graph |-> nx_graph,
     io_degrees |-> SortSeq([k \in 1 .. Dim(nx_graph.adj) |->
                                <<InDegree(nx_graph.adj, k - 1), OutDegree(nx_graph.adj, k - 1)>>],
                            PairLess),
     tags |-> <<0>>]

\* the list without its element at the 0-based index i: del diagrams[i]
Del(diags, i) == SubSeq(diags, 1, i) \o SubSeq(diags, i + 2, Len(diags))

\* a variant of the inner loop whose break follows the io_degrees test rather
\* than the isomorphism test
first_match_io(diags, i) ==
    LET same == {c \in (i + 1) .. (Len(diags) - 1) :
                    diags[i + 1].io_degrees = diags[c + 1].io_degrees}
        c == CHOOSE c \in same : \A d \in same : d <= c
    IN  IF same # {} /\ is_isomorphic(diags[i + 1].graph, diags[c + 1].graph, TRUE)
        THEN c ELSE -1

\* the inner loop "for i_comp_diag in range(len(diagrams)-1, i_diag, -1)": the
\* index at which it breaks, the first from the end with equal io_degrees and
\* an isomorphic graph (operator flags matched), or -1 if it runs to its end
first_match(diags, i) ==
    LET found == {c \in (i + 1) .. (Len(diags) - 1) :
                     /\ diags[i + 1].io_degrees = diags[c + 1].io_degrees
                     /\ is_isomorphic(diags[i + 1].graph, diags[c + 1].graph, TRUE)}
    IN  IF found = {} THEN -1 ELSE CHOOSE c \in found : \A d \in found : d <= c

\* a variant of the merge that takes over the tags of the deleted diagram
take_tags(tags, comp_tags) == comp_tags

\* diagrams[i_diag].tags += diagrams[i_comp_diag].tags
add_tags(tags, comp_tags) == tags \o comp_tags

\* a variant of the turn that keeps the later diagram of a match
TopoTurnKeepLater(diags, i) ==
    LET c == first_match(diags, i)
    IN  IF c = -1 THEN diags
        ELSE Del([diags EXCEPT ![c + 1].tags = add_tags(diags[i + 1].tags, @)], i)

\* one turn of the outer loop of topologically_distinct_diagrams
TopoTurn(diags, i) ==
    LET c == first_match(diags, i)
    IN  IF c = -1 THEN diags
        ELSE Del([diags EXCEPT ![i + 1].tags = add_tags(@, diags[c + 1].tags)], c)

\* sorted([degree for node, degree in diag.degree_iter()]) of methods.py
vert_degrees(graph) ==
    SortSeq([k \in 1 .. Dim(graph.adj) |-> degree(graph, k - 1)], <)

\* the inner loop "for i_comp_diag in xrange(i_diag+1, len(diagrams), 1)" of
\* methods.py: the index at which it breaks, the first with equal sorted
\* degrees and an isomorphic graph (operator flags matched), or -1
methods_first_match(diags, i) ==
    LET found == {c \in (i + 1) .. (Len(diags) - 1) :
                     /\ vert_degrees(diags[i + 1]) = vert_degrees(diags[c + 1])
                     /\ is_isomorphic(diags[i + 1], diags[c + 1], TRUE)}
    IN  IF found = {} THEN -1 ELSE Least(found)

RECURSIVE methods_loop(_, _)
\* the turns i_diag, i_diag - 1, ..., 0 of the outer loop of
\* topologically_distinct_diags
methods_loop(diags, i) ==
    IF i < 0 THEN diags
    ELSE LET c == methods_first_match(diags, i)
         IN  methods_loop(IF c = -1 THEN diags ELSE Del(diags, c), i - 1)

\* topologically_distinct_diags of methods.py
topologically_distinct_diags(diags) == methods_loop(diags, Len(diags) - 1)

\* the graphs of three vertices joined by two single lines, no two of them
\* entering the same vertex: the six paths and the three forks
TwoLineGraphs ==
    {m \in [Nodes(3) -> [Nodes(3) -> 0 .. 1]] :
        /\ \A i \in Nodes(3) : m[i][i] = 0 /\ InDegree(m, i) <= 1
        /\ \A i, j \in Nodes(3) : ~(m[i][j] = 1 /\ m[j][i] = 1)
        /\ NumberOfEdges(m) = 2}

\* the Diagram objects made of these graphs, unlabelled and labelled
PlainDiagrams == {Diagram(from_numpy_matrix(m)) : m \in TwoLineGraphs}
LabelledDiagrams == {Diagram(LabelOperator(from_numpy_matrix(m))) : m \in TwoLineGraphs}

\* the lists the canonicalizer is called with
PlainLists == UNION {[1 .. len -> PlainDiagrams] : len \in 0 .. MaxDiagrams}
LabelledLists == UNION {[1 .. len -> LabelledDiagrams] : len \in 0 .. MaxDiagrams}

\* the call: a list of Diagram objects as the constructor leaves them (graphs
\* not labelled, tags [0]), or prepared for the comparison (graphs labelled, tags
\* numbered by position)
InitCanon ==
    /\ \E prepared \in BOOLEAN :
         \E diags \in (IF prepared THEN LabelledLists ELSE PlainLists) :
            td_input = [k \in DOMAIN diags |->
                           [diags[k] EXCEPT !.tags = IF prepared THEN <<k - 1>> ELSE @]]
    /\ td_diagrams = td_input
    /\ td_first = << >>
    /\ i_diag = Len(td_input) - 1
    /\ td_pass = 1
    /\ td_pc = "loop"
    /\ md_diagrams = [k \in DOMAIN td_input |-> td_input[k].graph]
    /\ md_pc = IF Len(td_input) <= MaxMethodsDiagrams THEN "call" ELSE "idle"

\* one turn of "for i_diag in range(len(diagrams)-1, -1, -1)"
TopoStep ==
    /\ td_pc = "loop" /\ i_diag >= 0
    /\ td_diagrams' = TopoTurn(td_diagrams, i_diag)
    /\ i_diag' = i_diag - 1
    /\ UNCHANGED <<td_input, td_first, td_pass, td_pc, md_diagrams, md_pc, mainVars, labelVars, filterVars, routineVars>>

\* return diagrams
TopoReturn ==
    /\ td_pc = "loop" /\ i_diag < 0
    /\ td_pc' = "returned"
    /\ UNCHANGED <<td_diagrams, td_input, td_first, td_pass, i_diag, md_diagrams, md_pc,
                   mainVars, labelVars, filterVars, routineVars>>

\* the canonicalizer is called on the list it returned
TopoAgain ==
    /\ td_pc = "returned" /\ td_pass = 1
    /\ td_first' = td_diagrams
    /\ td_pass' = 2
    /\ i_diag' = Len(td_diagrams) - 1
    /\ td_pc' = "loop"
    /\ UNCHANGED <<td_diagrams, td_input, md_diagrams, md_pc, mainVars, labelVars, filterVars, routineVars>>

\* topologically_distinct_diags of methods.py is called on the graphs of the
\* same input
TopoMethods ==
    /\ md_pc = "call" /\ td_pc = "returned" /\ td_pass = 2
    /\ md_diagrams' = topologically_distinct_diags(md_diagrams)
    /\ md_pc' = "returned"
    /\ UNCHANGED <<td_diagrams, td_input, td_first, i_diag, td_pass, td_pc,
                   mainVars, labelVars, filterVars, routineVars>>

\* the main script is not run
MainIdle ==
    /\ norder = 1 /\ theory = "" /\ three_N = FALSE /\ norm = FALSE /\ pc = "idle"
    /\ temp_matrices = << >> /\ matrices = << >> /\ vertex = 0 /\ sum_index = 0
    /\ diagrams = << >> /\ listfile = << >> /\ G = << >> /\ G1 = << >> /\ idx = 1
    /\ G2 = << >> /\ G3 = << >> /\ G2_HF = << >> /\ G2_EHF = << >> /\ G2_noHF = << >>
    /\ G3_HF = << >> /\ G3_EHF = << >> /\ G3_noHF = << >>
    /\ TailIdle

\* the canonicalizer called on every list of the model, then on its result
InitCanonSpec == InitCanon /\ MainIdle /\ LabelIdle /\ FilterIdle /\ RoutineIdle
NextCanon == TopoStep \/ TopoReturn \/ TopoAgain \/ TopoMethods
SpecCanon == InitCanonSpec /\ [][NextCanon]_vars

(***************************************************************************)
(* The vertex labelling of adg/diag.py and of methods.py.                  *)
(***************************************************************************)
\* the longest list given to label_vertices
MaxGraphs == 2

\* the truth value Python gives a string
Truthy(str) == str # ""

\* label_vertices of adg/diag.py: every flag set to False, then that of node 0
\* to True under the test 'theory_type == "BMBPT" or "PBMBPT"'
label_vertices(graphs_list, theory_type) ==
    [k \in DOMAIN graphs_list |->
        [graphs_list[k] EXCEPT !.operator =
            [node \in DOMAIN graphs_list[k].adj |->
                node = 0 /\ (theory_type = "BMBPT" \/ Truthy("PBMBPT"))]]]

\* label_vertices of methods.py: every flag set to False, then that of node 0 to
\* True under the test '(theory_type == "BMBPT") and not study_norm'
methods_label_vertices(diagrams_list, theory_type, study_norm) ==
    [k \in DOMAIN diagrams_list |->
        [diagrams_list[k] EXCEPT !.operator =
            [node \in DOMAIN diagrams_list[k].adj |->
                node = 0 /\ (theory_type = "BMBPT" /\ ~study_norm)]]]

\* the graphs given to label_vertices: fresh from the matrix, or labelled before
LabelGraphs ==
    {from_numpy_matrix(m) : m \in TwoLineGraphs}
        \cup {LabelOperator(from_numpy_matrix(m)) : m \in TwoLineGraphs}

LabelLists == UNION {[1 .. len -> LabelGraphs] : len \in 0 .. MaxGraphs}

\* the call: adg/diag.py knows the theories MBPT, BMBPT and PBMBPT and takes no
\* study_norm; methods.py knows MBPT, BMBPT and SCGF
InitLabel ==
    /\ lv_impl \in {"diag", "methods"}
    /\ lv_theory \in (IF lv_impl = "diag" THEN {"MBPT", "BMBPT", "PBMBPT"}
                      ELSE {"MBPT", "BMBPT", "SCGF"})
    /\ lv_norm \in (IF lv_impl = "diag" THEN {FALSE} ELSE BOOLEAN)
    /\ lv_graphs \in LabelLists
    /\ lv_pc = "call"

LabelDiag ==
    /\ lv_pc = "call" /\ lv_impl = "diag"
    /\ lv_graphs' = label_vertices(lv_graphs, lv_theory)
    /\ lv_pc' = "returned"
    /\ UNCHANGED <<lv_theory, lv_norm, lv_impl, mainVars, canonVars, filterVars, routineVars>>

LabelMethods ==
    /\ lv_pc = "call" /\ lv_impl = "methods"
    /\ lv_graphs' = methods_label_vertices(lv_graphs, lv_theory, lv_norm)
    /\ lv_pc' = "returned"
    /\ UNCHANGED <<lv_theory, lv_norm, lv_impl, mainVars, canonVars, filterVars, routineVars>>

\* label_vertices called on every list and configuration of the model
InitLabelSpec == InitLabel /\ MainIdle /\ CanonIdle /\ FilterIdle /\ RoutineIdle
NextLabel == LabelDiag \/ LabelMethods
SpecLabel == InitLabelSpec /\ [][NextLabel]_vars

(***************************************************************************)
(* The matrix filters of adg/diag.py and methods.py, and those of adg.py,  *)
(* called on lists of matrices of their own.                               *)
(***************************************************************************)
\* the greatest entry of a matrix given to a filter alone
MaxEntry == 3
\* the longest list of matrices given to a filter
MaxMatrices == 2
\* the greatest nbody_max_observable
MaxBody == 3

\* no_trace of adg/diag.py: keeps the matrices with no diagonal entry != 0
diag_no_trace(mats) ==
    Filter(mats, [k \in DOMAIN mats |-> \A i \in DOMAIN mats[k] : ~(mats[k][i][i] # 0)])

\* no_trace of methods.py: keeps the matrices with no diagonal entry == 1
methods_no_trace(mats) ==
    Filter(mats, [k \in DOMAIN mats |-> \A i \in DOMAIN mats[k] : ~(mats[k][i][i] = 1)])

RECURSIVE DeleteDown(_, _, _)
\* "for i_mat in range(len(matrices)-1, -1, -1)" from i_mat down, with
\* "del matrices[i_mat]" for the matrices of the set dropped
DeleteDown(mats, i_mat, dropped) ==
    IF i_mat < 0 THEN mats
    ELSE DeleteDown(IF mats[i_mat + 1] \in dropped THEN Del(mats, i_mat) ELSE mats,
                    i_mat - 1, dropped)

\* no_loop of methods.py, which deletes from the list it is given
methods_no_loop(mats) ==
    DeleteDown(mats, Len(mats) - 1,
               {m \in Range(mats) : \E i \in DOMAIN m : \E j \in 0 .. i :
                                        m[i][j] # 0 /\ m[j][i] # 0})

\* authorized_deg of check_vertex_degree
authorized_deg(three_body_use, canonical_only, vertex_id) ==
    {4} \cup (IF three_body_use THEN {6} ELSE {})
        \cup (IF ~canonical_only \/ vertex_id = 0 THEN {2} ELSE {})

\* a variant of vertex_degree without "vertex_degree -= matrix[vertex_id][vertex_id]"
vertex_degree_twice(matrix, vertex_id) == VertexDegree(matrix, vertex_id)

\* vertex_degree of check_vertex_degree: the sum over index of
\* matrix[index][vertex_id] + matrix[vertex_id][index], less the diagonal entry
vertex_degree(matrix, vertex_id) ==
    SumOver([index \in DOMAIN matrix |->
                matrix[index][vertex_id] + matrix[vertex_id][index]], DOMAIN matrix)
        - matrix[vertex_id][vertex_id]

\* check_vertex_degree of adg/diag.py, which deletes from the list it is given
check_vertex_degree(mats, three_body_use, nbody_max_observable, canonical_only, vertex_id) ==
    DeleteDown(mats, Len(mats) - 1,
               {m \in Range(mats) :
                   \/ /\ vertex_id # 0
                      /\ vertex_degree(m, vertex_id)
                             \notin authorized_deg(three_body_use, canonical_only, vertex_id)
                   \/ /\ vertex_id = 0
                      /\ vertex_degree(m, vertex_id) > 2 * nbody_max_observable})

\* the matrices of the filters' inputs: two vertices, entries up to MaxEntry, or
\* entries 0 and 1
FilterNodes == Nodes(2)
RichMatrices == [FilterNodes -> [FilterNodes -> 0 .. MaxEntry]]
PlainMatrices == [FilterNodes -> [FilterNodes -> 0 .. 1]]

\* the lists given to the filters: one matrix of any kind, or up to MaxMatrices
\* matrices of entries 0 and 1
FilterLists ==
    {<<m>> : m \in RichMatrices}
        \cup UNION {[1 .. len -> PlainMatrices] : len \in 0 .. MaxMatrices}

\* the arguments of a call besides the list
FilterCall(routine, three_body_use, nbody_max_observable, canonical_only, vertex_id) ==
    [routine |-> routine, three_body_use |-> three_body_use,
     nbody_max_observable |-> nbody_max_observable,
     canonical_only |-> canonical_only, vertex_id |-> vertex_id]

\* a call that takes the list only
ListCall(routine) == FilterCall(routine, FALSE, 0, FALSE, 0)

InitFilter ==
    /\ fl_input \in FilterLists
    /\ fl_call = ""
    /\ fl_out = << >>
    /\ fl_pc = "call"

\* no_trace(matrices) of adg/diag.py
CallDiagNoTrace ==
    /\ fl_pc = "call"
    /\ fl_call' = ListCall("diag.no_trace")
    /\ fl_out' = diag_no_trace(fl_input)
    /\ fl_pc' = "returned"
    /\ UNCHANGED <<fl_input, mainVars, canonVars, labelVars, routineVars>>

\* no_trace(matrices) of methods.py
CallMethodsNoTrace ==
    /\ fl_pc = "call"
    /\ fl_call' = ListCall("methods.no_trace")
    /\ fl_out' = methods_no_trace(fl_input)
    /\ fl_pc' = "returned"
    /\ UNCHANGED <<fl_input, mainVars, canonVars, labelVars, routineVars>>

\* g(matrices) of adg.py
CallG ==
    /\ fl_pc = "call"
    /\ fl_call' = ListCall("adg.g")
    /\ fl_out' = g(fl_input)
    /\ fl_pc' = "returned"
    /\ UNCHANGED <<fl_input, mainVars, canonVars, labelVars, routineVars>>

\* no_loop(matrices) of adg.py
CallNoLoop ==
    /\ fl_pc = "call"
    /\ fl_call' = ListCall("adg.no_loop")
    /\ fl_out' = no_loop(fl_input)
    /\ fl_pc' = "returned"
    /\ UNCHANGED <<fl_input, mainVars, canonVars, labelVars, routineVars>>

\* no_loop(matrices) of methods.py
CallMethodsNoLoop ==
    /\ fl_pc = "call"
    /\ fl_call' = ListCall("methods.no_loop")
    /\ fl_out' = methods_no_loop(fl_input)
    /\ fl_pc' = "returned"
    /\ UNCHANGED <<fl_input, mainVars, canonVars, labelVars, routineVars>>

\* check_vertex_degree(matrices, three_body_use, nbody_max_observable,
\* canonical_only, vertex_id) of adg/diag.py
CallCheckVertexDegree ==
    /\ fl_pc = "call"
    /\ \E three_body_use, canonical_only \in BOOLEAN :
         \E nbody_max_observable \in 1 .. MaxBody : \E vertex_id \in FilterNodes :
            /\ fl_call' = FilterCall("diag.check_vertex_degree", three_body_use,
                                     nbody_max_observable, canonical_only, vertex_id)
            /\ fl_out' = check_vertex_degree(fl_input, three_body_use,
                                             nbody_max_observable, canonical_only, vertex_id)
    /\ fl_pc' = "returned"
    /\ UNCHANGED <<fl_input, mainVars, canonVars, labelVars, routineVars>>

\* every filter called on every list of the model
InitFilterSpec == InitFilter /\ MainIdle /\ CanonIdle /\ LabelIdle /\ RoutineIdle
NextFilter ==
    \/ CallDiagNoTrace \/ CallMethodsNoTrace \/ CallG
    \/ CallNoLoop \/ CallMethodsNoLoop \/ CallCheckVertexDegree
SpecFilter == InitFilterSpec /\ [][NextFilter]_vars

(***************************************************************************)
(* The routines of adg/diag.py for projected (PBMBPT) diagrams and for     *)
(* time-structure diagrams, called on arguments of their own.  A PBMBPT    *)
(* graph is a MultiDiGraph whose lines carry the attribute 'anomalous':    *)
(* the record [operator, props], operator[v] the node attribute and props  *)
(* the list of its lines <<source, target, anomalous>> in the order        *)
(* graph.edges(data=True) yields them.                                     *)
(***************************************************************************)
\* most lines of a graph given to create_checkable_diagram
MaxProps == 3
\* longest list of projected diagrams given to the canonicalizer
MaxProjected == 2
\* most tags of a dict of permutations given to update_permutations
MaxTags == 2

\* the positions in graph.props of the lines from u to v
props_between(graph, u, v) ==
    {k \in DOMAIN graph.props : graph.props[k][1] = u /\ graph.props[k][2] = v}

\* graph.number_of_edges(u, v)
number_of_edges(graph, u, v) == Cardinality(props_between(graph, u, v))

\* graph.in_degree(node), graph.out_degree(node)
in_degree(graph, node) ==
    Cardinality({k \in DOMAIN graph.props : graph.props[k][2] = node})
out_degree(graph, node) ==
    Cardinality({k \in DOMAIN graph.props : graph.props[k][1] = node})

\* a variant of create_checkable_diagram without "and not prop[0] == prop[1]"
create_checkable_diagram_loops(pbmbpt_graph) ==
    LET props == pbmbpt_graph.props
        found == Filter(props, [k \in DOMAIN props |-> props[k][3]])
    IN  [pbmbpt_graph EXCEPT
            !.props = props \o [k \in DOMAIN found |-> <<found[k][2], found[k][1], TRUE>>]]

\* create_checkable_diagram: props_to_add gathers (target, source) of every
\* anomalous line that is not a self-loop, then each is added as an anomalous
\* line to the deep copy
create_checkable_diagram(pbmbpt_graph) ==
    LET props == pbmbpt_graph.props
        found == Filter(props, [k \in DOMAIN props |->
                                   props[k][3] /\ ~(props[k][1] = props[k][2])])
        props_to_add == [k \in DOMAIN found |-> <<found[k][2], found[k][1]>>]
    IN  [pbmbpt_graph EXCEPT
            !.props = props \o [k \in DOMAIN props_to_add |->
                                   <<props_to_add[k][1], props_to_add[k][2], TRUE>>]]

\* the io_degrees Diagram.__init__ computes: the sorted (in_degree, out_degree)
\* pairs of the nodes of nx_graph
io_degrees(nx_graph) ==
    SortSeq([k \in 1 .. Dim(nx_graph.operator) |->
                <<in_degree(nx_graph, k - 1), out_degree(nx_graph, k - 1)>>],
            PairLess)

\* a ProjectedBmbptDiagram: a Diagram (graph, io_degrees of that graph, tags)
\* whose graph has anomalous lines
ProjectedBmbptDiagram(nx_graph, tag) ==
    [graph |-> nx_graph, io_degrees |-> io_degrees(nx_graph), tags |-> <<tag>>]

\* the set categorical_multiedge_match('anomalous', False) makes of the lines
\* from u to v
anomalous_values(graph, u, v) ==
    {graph.props[k][3] : k \in props_between(graph, u, v)}

\* iso.DiGraphMatcher(g1, g2, node_match=op_nm, edge_match=anom_em).is_isomorphic():
\* a bijection of the nodes that keeps the operator flag, the number of lines
\* of every ordered pair and the set of their 'anomalous' values
matcher_is_isomorphic(g1, g2) ==
    /\ Dim(g1.operator) = Dim(g2.operator)
    /\ \E m \in Bijections(Dim(g1.operator)) :
          /\ \A i \in DOMAIN g1.operator : g1.operator[i] = g2.operator[m[i]]
          /\ \A i, j \in DOMAIN g1.operator :
                /\ number_of_edges(g1, i, j) = number_of_edges(g2, m[i], m[j])
                /\ anomalous_values(g1, i, j) = anomalous_values(g2, m[i], m[j])

\* the inner loop of topologically_distinct_diagrams for projected diagrams:
\* the index at which it breaks, the first from the end with equal io_degrees
\* and doubled graphs the matcher finds isomorphic, or -1
first_match_projected(diags, i) ==
    LET found == {c \in (i + 1) .. (Len(diags) - 1) :
                     /\ diags[i + 1].io_degrees = diags[c + 1].io_degrees
                     /\ matcher_is_isomorphic(create_checkable_diagram(diags[i + 1].graph),
                                              create_checkable_diagram(diags[c + 1].graph))}
    IN  IF found = {} THEN -1 ELSE CHOOSE c \in found : \A d \in found : d <= c

RECURSIVE projected_loop(_, _)
\* the turns i_diag, i_diag - 1, ..., 0 of the outer loop on projected diagrams
projected_loop(diags, i) ==
    IF i < 0 THEN diags
    ELSE LET c == first_match_projected(diags, i)
         IN  projected_loop(
                 IF c = -1 THEN diags
                 ELSE Del([diags EXCEPT ![i + 1].tags = add_tags(@, diags[c + 1].tags)], c),
                 i - 1)

\* topologically_distinct_diagrams on a list of ProjectedBmbptDiagram objects
topologically_distinct_projected(diags) == projected_loop(diags, Len(diags) - 1)

RECURSIVE permute_nodes_no_copy(_, _, _, _)
\* a variant of the loop over the nodes that reads the dict it is writing
\* in place of its copy dummy_nodes
permute_nodes_no_copy(perm, dummy_nodes, mapping, nodes) ==
    IF nodes = {} THEN perm
    ELSE LET node == Least(nodes)
         IN  permute_nodes_no_copy([perm EXCEPT ![node] = perm[mapping[node]]],
                                   dummy_nodes, mapping, nodes \ {node})

RECURSIVE permute_nodes(_, _, _, _)
\* "for node in comp_graph_perms[graph_id]": perm[node] = dummy_nodes[mapping[node]]
permute_nodes(perm, dummy_nodes, mapping, nodes) ==
    IF nodes = {} THEN perm
    ELSE LET node == Least(nodes)
         IN  permute_nodes([perm EXCEPT ![node] = dummy_nodes[mapping[node]]],
                           dummy_nodes, mapping, nodes \ {node})

\* the turn of "for graph_id in comp_graph_perms" for one dict of nodes
permute(perm, mapping) == permute_nodes(perm, perm, mapping, DOMAIN perm)

\* update_permutations: the dict given is changed in place and returned
update_permutations(comp_graph_perms, comp_graph_tag, mapping) ==
    LET identity == [key \in DOMAIN comp_graph_perms[comp_graph_tag] |-> key]
    IN  IF mapping # identity
        THEN [graph_id \in DOMAIN comp_graph_perms |->
                 permute(comp_graph_perms[graph_id], mapping)]
        ELSE comp_graph_perms

\* the graphs given to create_checkable_diagram: two nodes, up to MaxProps
\* lines, self-loops among them, any of them anomalous
CheckableProps == Nodes(2) \X Nodes(2) \X BOOLEAN
CheckableGraphs ==
    {[operator |-> [v \in Nodes(2) |-> v = 0], props |-> props] :
        props \in UNION {[1 .. len -> CheckableProps] : len \in 0 .. MaxProps}}

\* the lines of a projected diagram of the model: no self-loop
ProjectedProps == {p \in Nodes(3) \X Nodes(3) \X BOOLEAN : p[1] # p[2]}

\* the graphs of the projected diagrams: three nodes, node 0 the operator, held
\* together by two lines, each of them anomalous or not (the two lines join
\* different pairs of nodes, which the sums 1, 2 and 3 of their ends tell apart)
ProjectedGraphs ==
    {[operator |-> [v \in Nodes(3) |-> v = 0], props |-> <<pq[1], pq[2]>>] :
        pq \in {r \in ProjectedProps \X ProjectedProps :
                   r[1][1] + r[1][2] < r[2][1] + r[2][2]}}

\* the lists of projected diagrams given to the canonicalizer, tags numbered by
\* position
ProjectedLists ==
    {[k \in DOMAIN graphs |-> ProjectedBmbptDiagram(graphs[k], k - 1)] :
        graphs \in UNION {[1 .. len -> ProjectedGraphs] : len \in 1 .. MaxProjected}}

\* the dicts of permutations: a permutation of the three nodes for each tag
PermutationDicts ==
    UNION {[tags -> Bijections(3)] :
              tags \in {t \in SUBSET (0 .. MaxTags) : t # {} /\ Cardinality(t) <= MaxTags}}

\* a routine is called on arguments of the model
InitRoutine ==
    /\ \/ /\ lib_call = "create_checkable_diagram"
          /\ lib_input \in CheckableGraphs
       \/ /\ lib_call = "topologically_distinct_diagrams"
          /\ lib_input \in ProjectedLists
       \/ /\ lib_call = "update_permutations"
          /\ \E perms \in PermutationDicts : \E tag \in DOMAIN perms :
                \E mapping \in Bijections(3) :
                   lib_input = [comp_graph_perms |-> perms, comp_graph_tag |-> tag,
                                mapping |-> mapping]
    /\ lib_after = << >>
    /\ lib_out = << >>
    /\ lib_pc = "call"

\* create_checkable_diagram(pbmbpt_graph): the graph given is deep-copied first
\* and left as it is
CallCreateCheckable ==
    /\ lib_pc = "call" /\ lib_call = "create_checkable_diagram"
    /\ lib_out' = create_checkable_diagram(lib_input)
    /\ lib_after' = lib_input
    /\ lib_pc' = "returned"
    /\ UNCHANGED <<lib_call, lib_input, mainVars, canonVars, labelVars, filterVars>>

\* topologically_distinct_diagrams(diagrams) on projected diagrams: the list
\* given is reduced in place and returned
CallTopoProjected ==
    /\ lib_pc = "call" /\ lib_call = "topologically_distinct_diagrams"
    /\ lib_out' = topologically_distinct_projected(lib_input)
    /\ lib_after' = lib_out'
    /\ lib_pc' = "returned"
    /\ UNCHANGED <<lib_call, lib_input, mainVars, canonVars, labelVars, filterVars>>

\* update_permutations(comp_graph_perms, comp_graph_tag, mapping)
CallUpdatePermutations ==
    /\ lib_pc = "call" /\ lib_call = "update_permutations"
    /\ lib_out' = update_permutations(lib_input.comp_graph_perms,
                                      lib_input.comp_graph_tag, lib_input.mapping)
    /\ lib_after' = lib_out'
    /\ lib_pc' = "returned"
    /\ UNCHANGED <<lib_call, lib_input, mainVars, canonVars, labelVars, filterVars>>

InitRoutineSpec == InitRoutine /\ MainIdle /\ CanonIdle /\ LabelIdle /\ FilterIdle
NextRoutine == CallCreateCheckable \/ CallTopoProjected \/ CallUpdatePermutations
SpecRoutine == InitRoutineSpec /\ [][NextRoutine]_vars

(***************************************************************************)
(* Properties of the main script.                                          *)
(***************************************************************************)
\* the lists of graphs the script holds once the connectivity loop is over, as
\* they are when a later loop starts and when the script ends
LaterLists ==
    IF pc = "done" \/ (pc \in {"reduce", "split", "bucket2", "bucket3"} /\ idx = 1)
    THEN <<G, G1, G2, G3, G2_HF, G2_EHF, G2_noHF, G3_HF, G3_EHF, G3_noHF>>
    ELSE << >>

\* ignoring the direction of the lines, no part of the vertices is cut off from
\* the rest
SpansAllVertices(adj) ==
    \A S \in SUBSET (DOMAIN adj) :
        (S # {} /\ S # DOMAIN adj) =>
            \E u \in S, v \in (DOMAIN adj) \ S : adj[u][v] + adj[v][u] > 0

\* C1: every diagram the script outputs is weakly connected (one component
\* spanning all norder vertices), and no list the script holds after the
\* connectivity loop has a disconnected diagram in it
C1_OutputConnected ==
    \A l \in DOMAIN LaterLists : \A k \in DOMAIN LaterLists[l] :
        /\ Dim(LaterLists[l][k].adj) = norder
        /\ SpansAllVertices(LaterLists[l][k].adj)

\* a run is over in which the generator produced a disconnected candidate
C1_Witness ==
    /\ pc = "done" /\ G # << >>
    /\ \E k \in DOMAIN diagrams : ~SpansAllVertices(diagrams[k])

\* the degrees a vertex may have
AllowedDegrees(three) == IF three THEN {2, 4, 6} ELSE {2, 4}

\* vertex 0 is the operator vertex of the BMBPT operator kernels
Distinguished(v) == v = 0 /\ theory = "BMBPT" /\ ~norm

\* C2: in every output diagram every vertex other than the distinguished one has
\* degree 2 or 4, or 6 when three-body forces are included
C2_DegreeRule ==
    pc = "done" =>
        \A k \in DOMAIN G : \A v \in DOMAIN G[k].adj :
            ~Distinguished(v) =>
                InDegree(G[k].adj, v) + OutDegree(G[k].adj, v) \in AllowedDegrees(three_N)

\* with three-body forces, an output diagram has an ordinary vertex of degree 6
\* and an output diagram has one of degree 2
C2_Witness ==
    /\ pc = "done" /\ three_N
    /\ \E k, l \in DOMAIN G : \E v, w \in Nodes(norder) \ {0} :
          VertexDegree(G[k].adj, v) = 6 /\ VertexDegree(G[l].adj, w) = 2

\* g2 is g1 with its vertices renamed, operator flags included
SameTopology(g1, g2) ==
    \E m \in Bijections(Dim(g1.adj)) :
        /\ \A i \in DOMAIN g1.adj : g2.operator[i] = g1.operator[m[i]]
        /\ \A i, j \in DOMAIN g1.adj : g2.adj[i][j] = g1.adj[m[i]][m[j]]

\* C3 as stated: whatever the theory, no two output diagrams are isomorphic
C3_AsStated ==
    pc = "done" =>
        \A k, l \in DOMAIN G : k # l => ~SameTopology(G[k], G[l])

\* C3: for BMBPT, operator or norm kernel, no two output diagrams are isomorphic
\* (operator flags matched); for MBPT, which has no reduction, no two output
\* diagrams have the same adjacency matrix
C3_DistinctOutput ==
    pc = "done" =>
        \A k, l \in DOMAIN G : k # l =>
            IF theory = "BMBPT" THEN ~SameTopology(G[k], G[l])
            ELSE G[k].adj # G[l].adj

\* a BMBPT run is over in which the reduction dropped a diagram and kept several;
\* an MBPT run is judged by C7_Witness
C3_Witness ==
    /\ pc = "done" /\ theory = "BMBPT"
    /\ Len(G) >= 2
    /\ Len(G) < Len(Filter(diagrams, [k \in DOMAIN diagrams |-> SpansAllVertices(diagrams[k])]))

\* C6 as stated: MBPT at order 2 gives one diagram, of 2 lines, both vertices of
\* degree 2
C6_AsStated ==
    (pc = "done" /\ theory = "MBPT" /\ norder = 2) =>
        /\ Len(G) = 1
        /\ NumberOfEdges(G[1].adj) = 2
        /\ \A v \in DOMAIN G[1].adj : VertexDegree(G[1].adj, v) = 2

\* C6: MBPT at order 2 gives one diagram, of 4 lines (2 each way), both vertices
\* of degree 4
C6_Order2 ==
    (pc = "done" /\ theory = "MBPT" /\ norder = 2) =>
        /\ Len(G) = 1
        /\ NumberOfEdges(G[1].adj) = 4
        /\ G[1].adj = [i \in Nodes(2) |-> [j \in Nodes(2) |-> IF i = j THEN 0 ELSE 2]]
        /\ \A v \in DOMAIN G[1].adj : VertexDegree(G[1].adj, v) = 4

C6_Witness == pc = "done" /\ theory = "MBPT" /\ norder = 2 /\ Len(G) = 1

\* C7 as stated: MBPT at order 3 gives 3 connected diagrams, no two isomorphic
C7_AsStated ==
    (pc = "done" /\ theory = "MBPT" /\ norder = 3) =>
        /\ Len(G) = 3
        /\ \A k \in DOMAIN G : SpansAllVertices(G[k].adj)
        /\ \A k, l \in DOMAIN G : k # l => ~SameTopology(G[k], G[l])

\* C7: MBPT at order 3 gives 3 connected diagrams, no two with the same adjacency
\* matrix; two of the three are isomorphic
C7_Order3 ==
    (pc = "done" /\ theory = "MBPT" /\ norder = 3) =>
        /\ Len(G) = 3
        /\ \A k \in DOMAIN G : SpansAllVertices(G[k].adj)
        /\ \A k, l \in DOMAIN G : k # l => G[k].adj # G[l].adj
        /\ Cardinality({p \in (DOMAIN G) \X (DOMAIN G) :
                           p[1] < p[2] /\ SameTopology(G[p[1]], G[p[2]])}) = 1

C7_Witness ==
    /\ pc = "done" /\ theory = "MBPT" /\ norder = 3
    /\ \E k, l \in DOMAIN G : k # l /\ SameTopology(G[k], G[l])

\* C8: BMBPT at order 2, two-body only, operator kernel: 2 diagrams, one two-body
\* HF (canonical-energy) and one two-body noHF (non-canonical); the EHF
\* (canonical-operator) bucket and the three three-body buckets are empty
C8_Order2Buckets ==
    (pc = "done" /\ theory = "BMBPT" /\ norder = 2 /\ ~three_N /\ ~norm) =>
        /\ Len(G) = 2
        /\ nb_2 = 2 /\ nb_2_HF = 1 /\ nb_2_noHF = 1 /\ nb_2_EHF = 0
        /\ nb_3 = 0 /\ nb_3_HF = 0 /\ nb_3_EHF = 0 /\ nb_3_noHF = 0
        /\ G = G2_HF \o G2_noHF
        /\ \A v \in Nodes(2) : VertexDegree(G2_HF[1].adj, v) = 4
        /\ \A v \in Nodes(2) : VertexDegree(G2_noHF[1].adj, v) = 2

C8_Witness ==
    /\ pc = "done" /\ theory = "BMBPT" /\ norder = 2 /\ ~three_N /\ ~norm
    /\ G2_HF # << >> /\ G2_noHF # << >>

\* the values an entry of a matrix is read back as
Entries == 0 .. 9

\* the lines of a text, each the list of its tokens
LinesOf(text) ==
    LET ends == Filter([k \in DOMAIN text |-> k], [k \in DOMAIN text |-> text[k] = NL])
    IN  [i \in DOMAIN ends |->
            SubSeq(text, IF i = 1 THEN 1 ELSE ends[i - 1] + 1, ends[i] - 1)]

\* the token is an integer written in decimal digits
IsInt(tok) == \E x \in Entries : FormatInt(x) = tok
ParseInt(tok) == CHOOSE x \in Entries : FormatInt(x) = tok

\* the line of the rows-th row of the k-th block, a block being a header line,
\* n row lines and a blank line
RowLine(k, row, n) == (k - 1) * (n + 2) + 2 + row

\* the text is count blocks whose row lines are n integers each
Readable(text, n, count) ==
    LET lines == LinesOf(text)
    IN  /\ Len(lines) = count * (n + 2)
        /\ \A k \in 1 .. count :
              /\ Len(lines[RowLine(k, 0, n) - 1]) = 3
              /\ lines[RowLine(k, n, n)] = << >>
              /\ \A row \in Nodes(n) :
                    /\ Len(lines[RowLine(k, row, n)]) = n
                    /\ \A c \in 1 .. n : IsInt(lines[RowLine(k, row, n)][c])

\* the matrices read back from the text
ReadMatrices(text, n, count) ==
    LET lines == LinesOf(text)
    IN  [k \in 1 .. count |->
            [row \in Nodes(n) |-> [c \in Nodes(n) |-> ParseInt(lines[RowLine(k, row, n)][c + 1])]]]

\* C9 as stated: the rows of Diagrams.list, read back as integers, are the
\* matrices that were written
C9_AsStated ==
    pc = "graph" =>
        /\ Readable(listfile, norder, Len(diagrams))
        /\ ReadMatrices(listfile, norder, Len(diagrams)) = diagrams

\* the text is one block for each matrix of the list, in the order of the list:
\* a header line naming the matrix's index, alone on its line (the indices
\* counted from first), then the rows of the matrix as lines of integers, then
\* a blank line
DumpOf(text, mats, n, first) ==
    /\ Readable(text, n, Len(mats))
    /\ \A k \in DOMAIN mats :
          LinesOf(text)[RowLine(k, 0, n) - 1] = <<"Diagram", "n:", FormatInt(k - 1 + first)>>
    /\ ReadMatrices(text, n, Len(mats)) = mats

\* C25 as stated: the dump left by a run of the main script holds one block
\* for each diagram of the final list, in its order: a header line naming the
\* diagram's index, the rows of its adjacency matrix as lines of integers, and
\* a blank line
C25_AsStated ==
    pc = "done" =>
        DumpOf(listfile, [k \in DOMAIN G |-> G[k].adj], norder, 0)

\* the dump print_adj_matrices writes of the list the canonicalizer returned
\* is as C25 states, the indices counted from 1
PrintAdjMatricesBlocks ==
    td_pc = "returned" =>
        DumpOf(print_adj_matrices(td_diagrams),
               [k \in DOMAIN td_diagrams |-> td_diagrams[k].graph.adj], 3, 1)

\* the greatest degree of a vertex of the diagram is d
GreatestDegreeIs(graph, d) ==
    /\ \E v \in DOMAIN graph.adj : VertexDegree(graph.adj, v) = d
    /\ \A v \in DOMAIN graph.adj : VertexDegree(graph.adj, v) <= d

\* every diagram of the final list stands in exactly one of G2 and G3, and the
\* counts of the two groups and of the six buckets add up to the length of
\* the list
GroupsPartition ==
    /\ \A k \in DOMAIN G : (G[k] \in Range(G2)) # (G[k] \in Range(G3))
    /\ nb_2 + nb_3 = Len(G)
    /\ nb_2_HF + nb_2_EHF + nb_2_noHF + nb_3_HF + nb_3_EHF + nb_3_noHF = Len(G)

\* C26 as stated: a canonicalized BMBPT diagram is three-body exactly when its
\* greatest vertex degree is 6 and two-body exactly when it is 4
C26_AsStated ==
    (pc = "done" /\ theory = "BMBPT") =>
        /\ GroupsPartition
        /\ \A k \in DOMAIN G :
              /\ G[k] \in Range(G3) <=> GreatestDegreeIs(G[k], 6)
              /\ G[k] \in Range(G2) <=> GreatestDegreeIs(G[k], 4)

\* C26: at the end of a BMBPT run every diagram of the final list stands in
\* exactly one of the two-body and three-body groups, three-body exactly when
\* its greatest vertex degree is 6 and two-body exactly when it is 4 or 2; the
\* counts of the two groups, and those of the six buckets, add up to the
\* number of diagrams of the list
C26_BodyRank ==
    (pc = "done" /\ theory = "BMBPT") =>
        /\ GroupsPartition
        /\ \A k \in DOMAIN G :
              /\ G[k] \in Range(G3) <=> GreatestDegreeIs(G[k], 6)
              /\ G[k] \in Range(G2) <=>
                     (GreatestDegreeIs(G[k], 4) \/ GreatestDegreeIs(G[k], 2))

\* a BMBPT run has ended with a diagram of greatest degree 2, one of greatest
\* degree 4 and one of greatest degree 6
C26_Witness ==
    /\ pc = "done" /\ theory = "BMBPT"
    /\ \E k \in DOMAIN G2 : GreatestDegreeIs(G2[k], 2)
    /\ \E k \in DOMAIN G2 : GreatestDegreeIs(G2[k], 4)
    /\ \E k \in DOMAIN G3 : GreatestDegreeIs(G3[k], 6)

\* the lines of the matrix that come, source after source and target after
\* target, before those from u to v
LinesBefore(adj, u, v) ==
    LET n == Dim(adj)
        before == {p \in (DOMAIN adj) \X (DOMAIN adj) : p[1] * n + p[2] < u * n + v}
    IN  SumOver([p \in before |-> adj[p[1]][p[2]]], before)

\* the source and the target of the line numbered col (from 1) in that order
LineAt(adj, col) ==
    CHOOSE p \in (DOMAIN adj) \X (DOMAIN adj) :
        /\ LinesBefore(adj, p[1], p[2]) < col
        /\ col <= LinesBefore(adj, p[1], p[2]) + adj[p[1]][p[2]]

\* the number of lines that go from a vertex to a vertex of greater index
HoleLines(adj) ==
    LET up == {p \in (DOMAIN adj) \X (DOMAIN adj) : p[1] < p[2]}
    IN  SumOver([p \in up |-> adj[p[1]][p[2]]], up)

CarryingPairs(adj) == {p \in (DOMAIN adj) \X (DOMAIN adj) : adj[p[1]][p[2]] > 0}

\* C28: the symmetry factor of an MBPT diagram is 2 raised to the number of its
\* lines less the number of ordered pairs (source, target) of vertices that
\* carry a line, which is 2 raised to the number of entries of its adjacency
\* matrix equal to 2
C28_SymmetryFactor ==
    pc \in {"express", "draw"} =>
        \A k \in DOMAIN nedges_eq :
            LET adj == G[k].adj
            IN  /\ nedges_eq[k] = 2 ^ (NumberOfEdges(adj) - Cardinality(CarryingPairs(adj)))
                /\ nedges_eq[k] =
                       2 ^ Cardinality({p \in (DOMAIN adj) \X (DOMAIN adj) :
                                           adj[p[1]][p[2]] = 2})

\* the factors of all the diagrams of an MBPT run are there: a diagram with
\* three pairs of parallel lines, and a diagram without parallel lines
C28_Witness ==
    /\ pc = "draw" /\ theory = "MBPT" /\ G # << >>
    /\ \E k \in DOMAIN nedges_eq :
          /\ nedges_eq[k] = 8
          /\ \E u, v \in DOMAIN G[k].adj : G[k].adj[u][v] = 2
    /\ \E k \in DOMAIN nedges_eq :
          /\ nedges_eq[k] = 1
          /\ NumberOfEdges(G[k].adj) = 6

\* the positions of the piece in the list
PositionsOf(pieces, piece) ==
    Filter([k \in DOMAIN pieces |-> k], [k \in DOMAIN pieces |-> pieces[k] = piece])

\* the terms of the factor of a denominator that stands between the positions
\* open and close: (sign, energy) pairs, a first energy without a sign having
\* the sign " +"
TermsOf(pieces, open, close) ==
    LET body == SubSeq(pieces, open + 1, close - 1)
        signed == IF body # << >> /\ body[1] \notin {" +", "-"}
                  THEN <<" +">> \o body ELSE body
    IN  [t \in 1 .. (Len(signed) \div 2) |-> <<signed[2 * t - 1], signed[2 * t]>>]

\* the lines of the diagram, in their order, one end of which only has an
\* index below k
CrossingLines(adj, k) ==
    Filter([col \in 1 .. NumberOfEdges(adj) |-> col],
           [col \in 1 .. NumberOfEdges(adj) |->
               (LineAt(adj, col)[1] < k) # (LineAt(adj, col)[2] < k)])

\* the energy of the line numbered col: a letter for a hole line or for a
\* particle line, after the place of the line
EnergyOf(adj, col) ==
    "E_" \o (IF LineAt(adj, col)[1] < LineAt(adj, col)[2]
             THEN line_label_h(col - 1) ELSE line_label_p(col - 1))

\* the denominator of a diagram: a factor for each k from 1 to n - 1, the terms
\* of factor k being the lines that have one end only of index below k, with
\* sign + if that end is the source of the line and - if it is its target, so
\* that a hole line has sign + and a particle line sign - wherever it stands
DenominatorOf(pieces, adj) ==
    LET n == Dim(adj)
        opens == PositionsOf(pieces, "(")
        closes == PositionsOf(pieces, ")")
    IN  /\ Len(opens) = n - 1 /\ Len(closes) = n - 1
        /\ \A k \in 1 .. (n - 1) :
              LET crossing == CrossingLines(adj, k)
                  terms == TermsOf(pieces, opens[k], closes[k])
              IN  /\ opens[k] < closes[k]
                  /\ k < n - 1 => opens[k + 1] = closes[k] + 1
                  /\ terms = [t \in DOMAIN crossing |->
                                 <<IF LineAt(adj, crossing[t])[1] < k THEN " +" ELSE "-",
                                   EnergyOf(adj, crossing[t])>>]
                  /\ \A t \in DOMAIN terms :
                        terms[t][1] = " +"
                            <=> LineAt(adj, crossing[t])[1] < LineAt(adj, crossing[t])[2]
        /\ pieces # << >> => (pieces[1] = "(" /\ pieces[Len(pieces)] = ")")

\* C29: the energy denominator of an MBPT diagram of n vertices has n - 1
\* factors, one for each k from 1 to n - 1; a line stands in factor k exactly
\* when one only of its ends has an index below k, with + when that end is its
\* source and - when it is its target, so that a hole line stands with + only
\* and a particle line with - only
C29_Denominator ==
    (pc = "express" /\ idx > 1) =>
        /\ Len(denoms) = idx - 1
        /\ DenominatorOf(denoms[idx - 1], G[idx - 1].adj)

\* the denominator of a diagram of three vertices has been built, with a line
\* that stands in both factors and a line that stands in one only
C29_Witness ==
    /\ pc = "express" /\ idx > 1 /\ norder = 3
    /\ LET adj == G[idx - 1].adj
       IN  /\ \E col \in 1 .. NumberOfEdges(adj) :
                 col \in Range(CrossingLines(adj, 1)) /\ col \in Range(CrossingLines(adj, 2))
           /\ \E col \in 1 .. NumberOfEdges(adj) :
                 col \in Range(CrossingLines(adj, 1)) /\ col \notin Range(CrossingLines(adj, 2))
    /\ Len(PositionsOf(denoms[idx - 1], "(")) = 2

\* the places of result.tex where a drawing starts, one for each diagram of
\* the list in its order
DrawingPlaces == PositionsOf(latex_file, "\n\\begin{center}\n")

\* the headings of the buckets, in the order of the list
BucketHeadings ==
    <<Heading2HF, Heading2EHF, Heading2noHF, Heading3HF, Heading3EHF, Heading3noHF>>

\* the sizes of the buckets, in the same order
BucketSizes == <<nb_2_HF, nb_2_EHF, nb_2_noHF, nb_3_HF, nb_3_EHF, nb_3_noHF>>

\* the number of diagrams of the list that stand before bucket b
BucketStart(b) == SumOver([c \in 1 .. (b - 1) |-> BucketSizes[c]], 1 .. (b - 1))

\* the bucket of the diagram numbered k (from 1) of the list
BucketAt(k) ==
    CHOOSE b \in DOMAIN BucketSizes : BucketStart(b) < k /\ k <= BucketStart(b) + BucketSizes[b]

\* the heading that stands last before the place
HeadingBefore(place) ==
    LET before == {q \in 1 .. (place - 1) : latex_file[q] \in Range(BucketHeadings)}
    IN  latex_file[CHOOSE q \in before : \A r \in before : r <= q]

\* C30: in the document of a BMBPT run every diagram stands under the heading
\* of its bucket: the heading of a bucket that has diagrams is written once,
\* right before the first diagram of the bucket, and the heading of a bucket
\* that has none is not followed by the diagrams of another bucket
C30_AsStated ==
    (pc = "closed" /\ theory = "BMBPT") =>
        /\ Len(DrawingPlaces) = Len(G)
        /\ \A k \in DOMAIN DrawingPlaces :
              HeadingBefore(DrawingPlaces[k]) = BucketHeadings[BucketAt(k)]
        /\ \A b \in DOMAIN BucketSizes :
              IF BucketSizes[b] > 0
              THEN PositionsOf(latex_file, BucketHeadings[b])
                       = <<DrawingPlaces[BucketStart(b) + 1] - 1>>
              ELSE \A q \in Range(PositionsOf(latex_file, BucketHeadings[b])) :
                       q + 1 \notin Range(DrawingPlaces)

\* when the reduction loop of the main script ends, the kept list holds, in
\* order, the diagrams of the connected list that no earlier one is isomorphic to
ReductionKeepsEarliest ==
    (pc = "reduce" /\ idx > Len(G)) =>
        G1 = Filter(G, [k \in DOMAIN G |->
                          \A j \in 1 .. (k - 1) : ~SameTopology(G[j], G[k])])

\* the elements of list, in the order of list, that stand in part
Restrict(list, part) ==
    Filter(list, [k \in DOMAIN list |-> list[k] \in Range(part)])

\* part holds elements of list, each once, in the order they have in list
KeepsOrderOf(part, list) == part = Restrict(list, part)

\* no vertex of the diagram has six lines / some vertex has
TwoBody(graph) == \A v \in DOMAIN graph.adj : VertexDegree(graph.adj, v) # 6
ThreeBody(graph) == \E v \in DOMAIN graph.adj : VertexDegree(graph.adj, v) = 6

\* the graphs of the enumerated matrices that are in one piece, in the order
\* of the enumeration
ConnectedEnumeration ==
    LET graphs == [k \in DOMAIN diagrams |-> from_numpy_matrix(diagrams[k])]
    IN  Filter(graphs, [k \in DOMAIN graphs |-> SpansAllVertices(graphs[k].adj)])

\* C12: at the end of a BMBPT run the output list holds the diagrams of the
\* canonicalized list (G1 after the reduction), each once and none else; it is
\* the 2-body HF, 2-body EHF, 2-body noHF, 3-body HF, 3-body EHF and 3-body
\* noHF diagrams in this order, the 2-body ones being those without a vertex of
\* degree 6, and the diagrams of each of the six groups stand in the order the
\* canonicalized list has them in.  At the end of an MBPT run the output list is
\* the connected diagrams in the order of the enumeration.
C12_OutputArrangement ==
    pc = "done" =>
        IF theory = "BMBPT"
        THEN /\ Len(G) = Len(G1) /\ Range(G) = Range(G1)
             /\ Cardinality(Range(G1)) = Len(G1)
             /\ G = G2_HF \o G2_EHF \o G2_noHF \o G3_HF \o G3_EHF \o G3_noHF
             /\ \A part \in {G2_HF, G2_EHF, G2_noHF, G2} :
                   KeepsOrderOf(part, G1) /\ \A k \in DOMAIN part : TwoBody(part[k])
             /\ \A part \in {G3_HF, G3_EHF, G3_noHF, G3} :
                   KeepsOrderOf(part, G1) /\ \A k \in DOMAIN part : ThreeBody(part[k])
        ELSE G = ConnectedEnumeration

\* a BMBPT run has ended whose output is not in the order of the canonicalized
\* list, with HF, EHF and several noHF diagrams
C12_Witness ==
    /\ pc = "done" /\ theory = "BMBPT"
    /\ G # G1
    /\ G2_HF # << >> /\ G2_EHF # << >> /\ Len(G2_noHF) >= 2

\* the vertices of the diagram that have degree 2
DegreeTwo(graph) == {v \in DOMAIN graph.adj : VertexDegree(graph.adj, v) = 2}

\* C13: at the end of a BMBPT run a diagram of the canonicalized list stands in
\* an HF list exactly when none of its vertices has degree 2, in an EHF list
\* exactly when vertex 0 has degree 2, no other vertex has, and the norm kernel
\* is not studied, and in a noHF list otherwise; with the norm kernel the EHF
\* lists are empty
C13_Classification ==
    (pc = "done" /\ theory = "BMBPT") =>
        /\ \A k \in DOMAIN G1 :
              LET diag == G1[k]
                  inHF == diag \in Range(G2_HF) \cup Range(G3_HF)
                  inEHF == diag \in Range(G2_EHF) \cup Range(G3_EHF)
                  innoHF == diag \in Range(G2_noHF) \cup Range(G3_noHF)
              IN  /\ inHF <=> DegreeTwo(diag) = {}
                  /\ inEHF <=> (DegreeTwo(diag) = {0} /\ ~norm)
                  /\ innoHF <=> ~(DegreeTwo(diag) = {} \/ (DegreeTwo(diag) = {0} /\ ~norm))
        /\ norm => (G2_EHF = << >> /\ G3_EHF = << >>)

\* a BMBPT run without the norm kernel has ended with a diagram in each of the
\* HF, EHF and noHF lists
C13_Witness ==
    /\ pc = "done" /\ theory = "BMBPT" /\ ~norm
    /\ \E k \in DOMAIN G1 : DegreeTwo(G1[k]) = {}
    /\ \E k \in DOMAIN G1 : DegreeTwo(G1[k]) = {0}
    /\ \E k \in DOMAIN G1 : DegreeTwo(G1[k]) \ {0} # {}

\* nothing has been enumerated, filtered, built or written
NothingDone ==
    /\ temp_matrices = << >> /\ matrices = << >> /\ diagrams = << >>
    /\ listfile = << >> /\ G = << >> /\ G1 = << >>

\* C14 as stated: with an order below 1 or a theory other than MBPT and BMBPT
\* the run stops before the generation: it stays at the prompts or ends in the
\* error, and nothing is enumerated, filtered, built or written
C14_AsStated ==
    (norder < 1 \/ theory \notin {"MBPT", "BMBPT"}) =>
        (pc \in {"input", "crashed"} /\ NothingDone)

\* the part of C14 the script keeps: with a theory other than MBPT and BMBPT
\* the run ends in an error with nothing enumerated, filtered, built or written
InvalidTheoryStops ==
    theory \notin {"MBPT", "BMBPT"} => (pc \in {"input", "crashed"} /\ NothingDone)

\* the reported number of diagrams and the counts of lines 415-422 are all 0
AllCountsZero ==
    /\ Len(G) = 0
    /\ nb_2 = 0 /\ nb_2_HF = 0 /\ nb_2_EHF = 0 /\ nb_2_noHF = 0
    /\ nb_3 = 0 /\ nb_3_HF = 0 /\ nb_3_EHF = 0 /\ nb_3_noHF = 0

\* a stage has ended with no diagram: the enumeration, the connectivity filter
\* or the reduction
EmptyStage ==
    \/ pc = "write" /\ diagrams = << >>
    \/ pc \in {"reduce", "split"} /\ idx = 1 /\ G = << >>

\* C15: a run of order 1, MBPT or BMBPT with either kernel, and every run one of
\* whose stages ends with no diagram, goes on to its end, where the number of
\* diagrams and the counts of all the groups are 0
C15_EmptyResult ==
    /\ (pc = "input" /\ norder = 1 /\ theory \in {"MBPT", "BMBPT"})
           ~> (pc = "done" /\ AllCountsZero)
    /\ EmptyStage ~> (pc = "done" /\ AllCountsZero)

\* a run of order 1 for the norm kernel has ended, nothing enumerated
C15_Witness ==
    /\ pc = "done" /\ norder = 1 /\ theory = "BMBPT" /\ norm
    /\ diagrams = << >> /\ listfile = << >> /\ AllCountsZero

\* a comes before b in descending lexicographic order of the matrices written
\* row after row: at the first of the n*n places where they differ a is greater
FlatGreater(a, b) ==
    LET n == Dim(a)
        at(m, p) == m[p \div n][p % n]
    IN  \E p \in 0 .. (n * n - 1) :
            /\ at(a, p) > at(b, p)
            /\ \A q \in 0 .. (p - 1) : at(a, q) = at(b, q)

\* the list is in strictly descending order, so holds no matrix twice
StrictlyDescending(list) ==
    \A k \in 1 .. (Len(list) - 1) : FlatGreater(list[k], list[k + 1])

\* the permutations of range(n) that leave no element in its place
Derangements(n) == {s \in Bijections(n) : \A i \in Nodes(n) : s[i] # i}

\* the permutation matrix of s: a 1 in row i at column s[i]
PermutationMatrix(s) ==
    [i \in DOMAIN s |-> [j \in DOMAIN s |-> IF s[i] = j THEN 1 ELSE 0]]

\* the sums P + Q of two zero-diagonal permutation matrices of n rows
PermutationSums(n) ==
    {[i \in Nodes(n) |-> [j \in Nodes(n) |->
         PermutationMatrix(s)[i][j] + PermutationMatrix(t)[i][j]]] :
        s, t \in Derangements(n)}

\* C19: the list diagram_generation(n) returns holds the sums P + Q of two
\* zero-diagonal permutation matrices of n rows, P and Q equal or not, all of
\* them and nothing else, in strictly descending lexicographic order of the
\* matrices written row after row (hence each once)
C19_PermutationSums ==
    (pc = "write" /\ theory = "MBPT" /\ norder >= 1) =>
        /\ Range(diagrams) = PermutationSums(norder)
        /\ StrictlyDescending(diagrams)

\* diagram_generation has returned fewer matrices than there are pairs of
\* zero-diagonal permutation matrices: some sum was found more than once
C19_Witness ==
    /\ pc = "write" /\ theory = "MBPT"
    /\ Len(diagrams) >= 2
    /\ LET d == Cardinality(Derangements(norder))
       IN  2 * Len(diagrams) < d * (d + 1)

\* the pairs of vertices i < j
VertexPairs(n) == {p \in Nodes(n) \X Nodes(n) : p[1] < p[2]}

\* the absolute value
Abs(x) == IF x < 0 THEN -x ELSE x

\* the lines of vertex v in a choice of lines for every pair of vertices
LinesOfChoice(choice, v) ==
    SumOver([p \in DOMAIN choice |-> IF v \in {p[1], p[2]} THEN Abs(choice[p]) ELSE 0],
            DOMAIN choice)

\* the matrix of a choice: for the pair i < j, choice lines from i to j when
\* the choice is positive, -choice lines from j to i when it is negative
ChoiceMatrix(choice, n) ==
    [i \in Nodes(n) |-> [j \in Nodes(n) |->
        IF i < j THEN (IF choice[<<i, j>>] > 0 THEN choice[<<i, j>>] ELSE 0)
        ELSE IF j < i THEN (IF choice[<<j, i>>] < 0 THEN -choice[<<j, i>>] ELSE 0)
        ELSE 0]]

\* generate, then filter: every n x n matrix with zero diagonal, entries up to
\* the greatest degree and lines in one direction at most between two vertices
\* is made, and those are kept in which every vertex has degree 2 or 4 (or 6
\* with three-body forces) and, unless the norm kernel is studied, no line
\* leaves vertex 0
Reference(n, three, nrm) ==
    LET most == IF three THEN 6 ELSE 4
        allowed == IF three THEN {2, 4, 6} ELSE {2, 4}
        choices == {c \in [VertexPairs(n) -> (-most) .. most] :
                       /\ nrm \/ \A p \in VertexPairs(n) : p[1] = 0 => c[p] <= 0
                       /\ \A v \in Nodes(n) : LinesOfChoice(c, v) \in allowed}
    IN  {ChoiceMatrix(c, n) : c \in choices}

\* C20: the list BMBPT_generation or BMBPT_Norm_generation returns for an
\* order of at least 1 holds the matrices a generate-then-filter enumeration
\* keeps, all of them and nothing else, in strictly descending lexicographic
\* order (hence each once)
C20_CompleteAndExact ==
    (pc = "write" /\ theory = "BMBPT" /\ norder >= 1) =>
        /\ Range(diagrams) = Reference(norder, three_N, norm)
        /\ StrictlyDescending(diagrams)

\* BMBPT_generation has returned several matrices of three vertices, one of
\* them with two lines between the same two vertices
C20_Witness ==
    /\ pc = "write" /\ theory = "BMBPT" /\ ~norm /\ norder = 3
    /\ Len(diagrams) >= 2
    /\ \E k \in DOMAIN diagrams : \E i, j \in Nodes(norder) : diagrams[k][i][j] = 2

\* the entries of the matrix in the rows and columns of the vertices below v
Settled(matrix, v) ==
    [p \in {q \in (DOMAIN matrix) \X (DOMAIN matrix) : q[1] < v \/ q[2] < v} |->
        matrix[p[1]][p[2]]]

\* every vertex below v passes the degree test in every matrix of the list
SettledDegreesOk(mats, v, three) ==
    \A k \in DOMAIN mats : \A u \in DOMAIN mats[k] :
        u < v => DegreeOk(VertexDegree(mats[k], u), three)

\* the last lines of a generator take nothing out of the list
FinishRemovesNothing(mats, three) ==
    /\ check_degree(mats, three) = mats
    /\ no_loop(mats) = mats
    /\ Uniq(mats) = mats

\* what a step of a BMBPT generator does to the vertices already pruned
\* ("vertex" counts them once the loop "for vertex" is reached)
PruningStep ==
    /\ pc' = "gen_pair" => SettledDegreesOk(temp_matrices', vertex', three_N)
    /\ (pc = "gen_pair" /\ pc' = "gen_pair") =>
           {Settled(temp_matrices'[k], vertex) : k \in DOMAIN temp_matrices'}
               \subseteq {Settled(temp_matrices[k], vertex) : k \in DOMAIN temp_matrices}
    /\ (pc = "gen_pair" /\ pc' = "write") =>
           /\ FinishRemovesNothing(matrices, three_N)
           /\ Len(diagrams') = Len(matrices)
           /\ Range(diagrams') = Range(matrices)

\* C21: in BMBPT_generation and BMBPT_Norm_generation every matrix kept after
\* the pruning for a vertex has that vertex's degree among the allowed ones, a
\* later step of the construction leaves every entry in the rows and columns of
\* the pruned vertices as it was, and the closing check_degree, no_loop and
\* removal of repeated matrices take nothing out
C21_PruningIsFinal == [][PruningStep]_<<pc, temp_matrices, vertex, diagrams>>

\* a generator has pruned for two vertices, has kept several matrices, and has a
\* vertex left to treat
C21_Witness ==
    /\ pc = "gen_pair" /\ theory = "BMBPT"
    /\ vertex = 2 /\ vertex < norder
    /\ Len(temp_matrices) >= 2

(***************************************************************************)
(* Properties of the matrix filters.                                       *)
(***************************************************************************)
\* the lines of vertex v: those of its row and of its column, a line from v to
\* itself counted once
LinesAt(matrix, v) ==
    SumOver([k \in DOMAIN matrix |-> IF k = v THEN matrix[v][v]
                                     ELSE matrix[k][v] + matrix[v][k]], DOMAIN matrix)

\* C16: check_vertex_degree leaves, in their order and as they were, the
\* matrices in which the vertex vertex_id has at most 2*nbody_max_observable
\* lines if vertex_id is 0 and, if it is not, has 4 lines, or 6 with
\* three_body_use, or 2 without canonical_only; a line from the vertex to
\* itself counts once
C16_VertexDegreeRule ==
    (fl_pc = "returned" /\ fl_call.routine = "diag.check_vertex_degree") =>
        LET v == fl_call.vertex_id
            allowed == {4} \cup (IF fl_call.three_body_use THEN {6} ELSE {})
                           \cup (IF fl_call.canonical_only THEN {} ELSE {2})
            kept(m) == IF v = 0 THEN LinesAt(m, v) <= 2 * fl_call.nbody_max_observable
                       ELSE LinesAt(m, v) \in allowed
        IN  fl_out = Filter(fl_input, [k \in DOMAIN fl_input |-> kept(fl_input[k])])

\* check_vertex_degree has returned for vertex 1: of two matrices it deleted
\* the first and left the second, in which vertex 1 has a line to itself and
\* one other line
C16_Witness ==
    /\ fl_pc = "returned" /\ fl_call.routine = "diag.check_vertex_degree"
    /\ fl_call.vertex_id = 1
    /\ Len(fl_input) = 2 /\ fl_out = <<fl_input[2]>>
    /\ fl_input[2][1][1] = 1 /\ LinesAt(fl_input[2], 1) = 2

\* the matrices of the list whose diagonal entries are all zero, in order
ZeroDiagonal(mats) ==
    Filter(mats, [k \in DOMAIN mats |-> \A i \in DOMAIN mats[k] : mats[k][i][i] = 0])

\* C17 as stated: no_trace of adg/diag.py, no_trace of methods.py and g of
\* adg.py each return the matrices of their input whose diagonal entries are
\* all zero, in input order
C17_AsStated ==
    (fl_pc = "returned"
        /\ fl_call.routine \in {"diag.no_trace", "methods.no_trace", "adg.g"}) =>
        fl_out = ZeroDiagonal(fl_input)

\* the part of C17 that holds: no_trace of adg/diag.py returns the matrices
\* whose diagonal entries are all zero, and the other two do when no entry of
\* the diagonals is greater than 1
NoTraceOnBits ==
    (fl_pc = "returned"
        /\ fl_call.routine \in {"diag.no_trace", "methods.no_trace", "adg.g"}
        /\ \/ fl_call.routine = "diag.no_trace"
           \/ \A k \in DOMAIN fl_input : \A i \in DOMAIN fl_input[k] :
                 fl_input[k][i][i] <= 1) =>
        fl_out = ZeroDiagonal(fl_input)

\* C18: no_loop of adg.py returns, and no_loop of methods.py leaves, in their
\* order, the matrices that have no i and j, equal or not, with [i][j] and
\* [j][i] both non-zero; the two lists are the same
C18_LoopRule ==
    (fl_pc = "returned" /\ fl_call.routine \in {"adg.no_loop", "methods.no_loop"}) =>
        /\ fl_out = Filter(fl_input, [k \in DOMAIN fl_input |->
                        \A i, j \in DOMAIN fl_input[k] :
                            ~(fl_input[k][i][j] # 0 /\ fl_input[k][j][i] # 0)])
        /\ fl_out = no_loop(fl_input)
        /\ fl_out = methods_no_loop(fl_input)

\* no_loop of methods.py has returned: of two matrices it deleted the first,
\* whose only non-zero entry is on the diagonal, and left the second, which
\* has a line
C18_Witness ==
    /\ fl_pc = "returned" /\ fl_call.routine = "methods.no_loop"
    /\ Len(fl_input) = 2 /\ fl_out = <<fl_input[2]>>
    /\ fl_input[1][1][1] # 0 /\ NumberOfEdges(fl_input[1]) = 1
    /\ NumberOfEdges(fl_input[2]) >= 1

(***************************************************************************)
(* Properties of the routines for projected and time-structure diagrams.   *)
(***************************************************************************)
\* the matcher run by the canonicalizer on two projected diagrams, that is on
\* their graphs with the anomalous lines doubled, declares them isomorphic
MatcherAgrees(d1, d2) ==
    matcher_is_isomorphic(create_checkable_diagram(d1.graph),
                          create_checkable_diagram(d2.graph))

\* C22: two projected diagrams that the matcher run by the canonicalizer
\* declares isomorphic have equal sorted (in-degree, out-degree) signatures,
\* so the canonicalizer leaves no two diagrams in its list that the matcher
\* would merge
C22_AsStated ==
    (lib_pc = "returned" /\ lib_call = "topologically_distinct_diagrams") =>
        /\ \A j, k \in DOMAIN lib_input :
              MatcherAgrees(lib_input[j], lib_input[k])
                  => lib_input[j].io_degrees = lib_input[k].io_degrees
        /\ \A j, k \in DOMAIN lib_out :
              j # k => ~MatcherAgrees(lib_out[j], lib_out[k])

\* without anomalous lines the signature test of the canonicalizer is a
\* necessary condition of the match: the diagrams of a list that is_isomorphic
\* puts together have equal io_degrees
PlainPrefilterNecessary ==
    \A j, k \in DOMAIN td_input :
        is_isomorphic(td_input[j].graph, td_input[k].graph, TRUE)
            => td_input[j].io_degrees = td_input[k].io_degrees

\* the number of lines from u to v of the graph whose 'anomalous' is a
LinesLike(graph, u, v, a) ==
    Cardinality({k \in DOMAIN graph.props : graph.props[k] = <<u, v, a>>})

\* C23: create_checkable_diagram leaves the graph it is given as it was, and
\* the graph it returns has the same nodes and, between any two nodes, the
\* lines of the graph given plus one anomalous line from v to u for each
\* anomalous line from u to v with u # v: no line is added for a line that is
\* not anomalous or for an anomalous self-loop
C23_CheckableCopy ==
    (lib_pc = "returned" /\ lib_call = "create_checkable_diagram") =>
        /\ lib_after = lib_input
        /\ lib_out.operator = lib_input.operator
        /\ \A u, v \in DOMAIN lib_input.operator :
              /\ LinesLike(lib_out, u, v, FALSE) = LinesLike(lib_input, u, v, FALSE)
              /\ LinesLike(lib_out, u, v, TRUE) =
                     LinesLike(lib_input, u, v, TRUE)
                     + (IF u # v THEN LinesLike(lib_input, v, u, TRUE) ELSE 0)

\* create_checkable_diagram has returned for a graph with an anomalous line
\* between two nodes, a line that is not anomalous between two nodes, and an
\* anomalous self-loop
C23_Witness ==
    /\ lib_pc = "returned" /\ lib_call = "create_checkable_diagram"
    /\ \E u, v \in DOMAIN lib_input.operator :
          u # v /\ LinesLike(lib_input, u, v, TRUE) = 1
    /\ \E u, v \in DOMAIN lib_input.operator :
          u # v /\ LinesLike(lib_input, u, v, FALSE) = 1
    /\ \E u \in DOMAIN lib_input.operator : LinesLike(lib_input, u, u, TRUE) = 1
    /\ Len(lib_out.props) = Len(lib_input.props) + 1

\* the map of the nodes is one-to-one and onto
IsBijection(perm) ==
    /\ \A a, b \in DOMAIN perm : a # b => perm[a] # perm[b]
    /\ {perm[a] : a \in DOMAIN perm} = DOMAIN perm

\* C24: update_permutations returns every map of the dict unchanged when
\* mapping is the identity on the vertices, and otherwise puts in the place of
\* every map p the map node -> p(mapping[node]); the tags of the dict and the
\* keys of every map are those given, and a map that was a bijection of the
\* vertices is one still when mapping is a bijection
C24_Composition ==
    (lib_pc = "returned" /\ lib_call = "update_permutations") =>
        LET perms == lib_input.comp_graph_perms
            mapping == lib_input.mapping
        IN  /\ (\A node \in DOMAIN mapping : mapping[node] = node) => lib_out = perms
            /\ (\E node \in DOMAIN mapping : mapping[node] # node) =>
                   \A tag \in DOMAIN perms : \A node \in DOMAIN perms[tag] :
                       lib_out[tag][node] = perms[tag][mapping[node]]
            /\ DOMAIN lib_out = DOMAIN perms
            /\ \A tag \in DOMAIN perms :
                   /\ DOMAIN lib_out[tag] = DOMAIN perms[tag]
                   /\ (IsBijection(mapping) /\ IsBijection(perms[tag]))
                          => IsBijection(lib_out[tag])

\* update_permutations has returned for a dict of two tags and a mapping that
\* moves every vertex, and has changed both maps
C24_Witness ==
    /\ lib_pc = "returned" /\ lib_call = "update_permutations"
    /\ Cardinality(DOMAIN lib_input.comp_graph_perms) = 2
    /\ \A node \in DOMAIN lib_input.mapping : lib_input.mapping[node] # node
    /\ \A tag \in DOMAIN lib_out : lib_out[tag] # lib_input.comp_graph_perms[tag]

(***************************************************************************)
(* Properties of the canonicalizer.                                        *)
(***************************************************************************)
\* C4: called on the list it returned, topologically_distinct_diagrams leaves the
\* list as it is at every turn of its loop and at its return: nothing removed,
\* no tag list changed, the order kept
C4_Idempotent == td_pass = 2 => td_diagrams = td_first

\* the second call has returned, on a list of several diagrams shorter than the
\* input, which held two diagrams of equal io_degrees that are not isomorphic
C4_Witness ==
    /\ td_pass = 2 /\ td_pc = "returned"
    /\ Len(td_first) >= 2 /\ Len(td_first) < Len(td_input)
    /\ \E k, l \in DOMAIN td_input :
          /\ k < l
          /\ td_input[k].io_degrees = td_input[l].io_degrees
          /\ ~SameTopology(td_input[k].graph, td_input[l].graph)

\* at its return no two diagrams of the canonicalizer's list are isomorphic
CanonDistinct ==
    td_pc = "returned" =>
        \A k, l \in DOMAIN td_diagrams :
            k # l => ~SameTopology(td_diagrams[k].graph, td_diagrams[l].graph)

\* the rows of the dump print_adj_matrices writes of the returned list, read
\* back as integers, are the matrices of its diagrams
PrintAdjMatricesRoundTrip ==
    td_pc = "returned" =>
        LET dump == print_adj_matrices(td_diagrams)
        IN  /\ Readable(dump, 3, Len(td_diagrams))
            /\ ReadMatrices(dump, 3, Len(td_diagrams))
                   = [k \in DOMAIN td_diagrams |-> td_diagrams[k].graph.adj]

\* how many times the tag t stands in the tag lists of diags
Occurrences(t, diags) ==
    SumOver([k \in DOMAIN diags |->
                Cardinality({p \in DOMAIN diags[k].tags : diags[k].tags[p] = t})],
            DOMAIN diags)

\* the tags of the input
InputTags == {td_input[k].tags[1] : k \in DOMAIN td_input}

SameClass ==
    [k \in DOMAIN td_input |->
        [l \in DOMAIN td_input |->
            k < l /\ SameTopology(td_input[k].graph, td_input[l].graph)] \o << >>] \o << >>

\* the positions in the input of the earliest members of the classes: those
\* no diagram before them is isomorphic to
Representatives(same) ==
    Filter([k \in DOMAIN td_input |-> k],
           [k \in DOMAIN td_input |-> \A j \in 1 .. (k - 1) : ~same[j][k]])

\* the tags of the input diagram k followed by the tags of the later diagrams
\* of its class, in input order
ClassTags(same, k) ==
    Flatten([l \in DOMAIN td_input |->
                IF l = k \/ same[k][l] THEN td_input[l].tags ELSE << >>])

\* C11: the list topologically_distinct_diagrams returned from the input holds,
\* in input order, the earliest input diagram of every class of isomorphic
\* diagrams, each with its own tags followed by the tags of the later diagrams
\* of its class; topologically_distinct_diags of methods.py returns the graphs
\* of the same diagrams in the same order
C11_EarliestKept ==
    md_pc = "returned" =>
        LET same == SameClass
            reps == Representatives(same)
        IN  /\ td_first = [r \in DOMAIN reps |->
                              [td_input[reps[r]] EXCEPT !.tags = ClassTags(same, reps[r])]]
            /\ md_diagrams = [r \in DOMAIN reps |-> td_input[reps[r]].graph]

\* both routines have returned two diagrams from an input of three with
\* different tags, the first of them merged from the first and the last
\* diagrams of the input
C11_Witness ==
    /\ md_pc = "returned"
    /\ Len(td_input) = 3 /\ Cardinality(InputTags) = 3
    /\ Len(td_first) = 2 /\ Len(md_diagrams) = 2
    /\ td_first[1].tags = <<0, 2>>
    /\ td_first[2].tags = <<1>>

(***************************************************************************)
(* Properties of the vertex labelling.                                     *)
(***************************************************************************)
\* C10 as stated: after label_vertices the operator flag is True on vertex 0 if
\* and only if the theory is BMBPT or PBMBPT and the norm kernel is not studied,
\* and False on every other vertex
C10_AsStated ==
    lv_pc = "returned" =>
        \A k \in DOMAIN lv_graphs : \A v \in DOMAIN lv_graphs[k].adj :
            lv_graphs[k].operator[v] <=>
                (v = 0 /\ lv_theory \in {"BMBPT", "PBMBPT"} /\ ~lv_norm)

\* what label_vertices of methods.py does is what C10 states
LabelMethodsAsStated ==
    (lv_pc = "returned" /\ lv_impl = "methods") => C10_AsStated

\* the labelling written out in adg.py (lines 345-348) does what C10 states: it
\* is run for BMBPT without the norm kernel only, a flag never set being False
LabelInlineAsStated ==
    pc = "done" =>
        \A k \in DOMAIN G : \A v \in DOMAIN G[k].adj :
            G[k].operator[v] <=> (v = 0 /\ theory = "BMBPT" /\ ~norm)

=============================================================================
